---- MODULE Spec2Model ----
(***************************************************************************)
(* Citation Graph Engine: the Metadata Client (core/client.py), the Graph  *)
(* Builder (core/graph.py) and the Citation Service (core/service.py).     *)
(*                                                                         *)
(* The upstream metadata service is frozen but unknown: an answer is drawn *)
(* the first time a request is made and the same answer is given to every  *)
(* later identical request (upPaper, upList).                              *)
(***************************************************************************)
EXTENDS Integers, Sequences, FiniteSets, TLC

VARIABLES
    root_paper_id,          \* build(): argument
    depthArg,               \* build(): argument depth, before clamping
    direction,              \* build(): argument
    max_papers_per_level,   \* GraphBuilder.max_papers_per_level
    upPaper,                \* upstream: answer to GET /paper/{id}
    upList,                 \* upstream: answer to GET /paper/{id}/citations|references
    pc,                     \* position of build()
    depth,                  \* build(): clamped depth
    papers,                 \* build(): dict paper_id -> PaperInfo, in insertion order
    edges,                  \* build(): list of (citing_id, cited_id)
    visited,                \* build(): set of expanded paper ids
    current_level,          \* build(): frontier
    current_depth,          \* build(): loop index of the level loop
    tasks,                  \* build(): the tasks handed to asyncio.gather
    results,                \* build(): what gather collects, by task index
    graph,                  \* build(): the returned CitationGraph
    failure,                \* exception raised to the caller of the operation
    builds,                 \* number of builds started against this upstream
    prevGraph,              \* graph returned by the previous build
    taskLog,                \* task lists of the levels of this build
    prevTaskLog,            \* task lists of the levels of the previous build
    op,                     \* the operation the caller invoked
    requests,               \* requests the operation has sent upstream so far
    call,                   \* the last single call of a client or service method
    method,                 \* find_similar_papers(): argument
    top_k,                  \* find_similar_papers(): argument
    similarities,           \* find_similar_papers(): the returned list
    paper_ids,              \* compare_papers(): argument
    cmp_i,                  \* _build_graph_from_papers(): index of the id loop
    simBack,                \* compute_similarity(): the results with each other paper as source
    min_cluster_size,       \* cluster_papers(): argument
    max_iterations,         \* cluster_papers(): argument
    hashOrder,              \* the order in which this process iterates a set of ids
    labels,                 \* cluster_papers(): dict paper_id -> label
    iteration,              \* cluster_papers(): passes of label propagation run so far
    changed,                \* cluster_papers(): flag of the last pass
    clustering,             \* cluster_papers(): the returned ClusteringResult
    gapResult,              \* find_gaps(): the returned GapAnalysisResult
    comparison              \* ComparisonAnalyzer.compare_papers(): the returned PaperComparison

buildVars == <<pc, depth, papers, edges, visited, current_level, current_depth,
               tasks, results, graph, failure, taskLog>>
inputVars == <<root_paper_id, depthArg, direction, max_papers_per_level>>
upVars    == <<upPaper, upList>>
histVars  == <<builds, prevGraph, prevTaskLog>>
clusterVars == <<min_cluster_size, max_iterations, hashOrder, labels,
                 iteration, changed, clustering>>
resultVars == <<gapResult, comparison>>
anaVars   == <<simBack, clusterVars, resultVars>>
svcVars   == <<method, top_k, similarities, paper_ids, cmp_i, anaVars>>
vars      == <<inputVars, upVars, buildVars, histVars, op, requests, call,
               svcVars>>

----------------------------------------------------------------------------
(* Bounds of the model *)

MaxFacts    == 3      \* papers found, arcs listed and calls that raise, together
MaxPerLevel == 2      \* largest max_papers_per_level tried
MaxBuilds   == 2      \* builds run against one frozen upstream

(* Paper ids: the empty string and two ordinary ids *)
Ids    == {"", "A", "B"}
IdsSeq == <<"", "A", "B">>
Roots  == {"", "A"}

NoId        == "<none>"       \* Python None where an id or title is expected
MissingKey  == "<missing>"    \* key not present in a JSON payload

Directions    == {"citations", "references", "both"}
DirectionArgs == Directions \cup {"sideways"}
DepthArgs     == {-1, 0, 2, 4}
PerLevelArgs  == 1..MaxPerLevel

(* service.py:106, client.py:422: the largest limit the upstream accepts *)
S2MaxLimit == 100

Min(a, b) == IF a < b THEN a ELSE b
Max(a, b) == IF a > b THEN a ELSE b

(* Python s[:n] *)
Slice(s, n) ==
    IF n >= 0 THEN SubSeq(s, 1, Min(n, Len(s)))
              ELSE SubSeq(s, 1, Max(Len(s) + n, 0))

SeqToSet(s) == {s[i] : i \in 1..Len(s)}

(* The orders in which a Python set can be iterated *)
Perms(S) ==
    {s \in [1..Cardinality(S) -> S] :
        \A i, j \in 1..Cardinality(S) : i # j => s[i] # s[j]}

(* iteration of a set of ids in this process *)
SetIter(S, order) == SelectSeq(order, LAMBDA x : x \in S)

CountOf(items, x) == Cardinality({i \in 1..Len(items) : items[i] = x})

(* re.findall(r"\b[a-zA-Z]{3,}\b", title), lower-cased, for the titles of  *)
(* the model                                                               *)
FindWords(title) ==
    IF title = "Unknown" THEN <<"unknown">>
    ELSE IF title = "Unknown Title" THEN <<"unknown", "title">>
    ELSE IF title = "Model" THEN <<"model">>
    ELSE IF title = "Graph" THEN <<"graph">>
    ELSE IF title = "Learning from Data" THEN <<"learning", "from", "data">>
    ELSE IF title = "The Data of Graphs" THEN <<"the", "data", "graphs">>
    ELSE IF title = "Data, Data" THEN <<"data", "data">>
    ELSE <<>>

----------------------------------------------------------------------------
(* core/models.py *)

PaperInfo(id, title) == [paper_id |-> id, title |-> title]

(* PaperInfo defines no __eq__: BaseModel compares every field *)
PaperInfoEq(a, b) == a = b

CitationRelationship(citing, cited, contexts) ==
    [citing_paper |-> citing, cited_paper |-> cited, contexts |-> contexts]

CitationGraph(r, p, e, d, dir) ==
    [root_paper_id |-> r, papers |-> p, edges |-> e, depth |-> d,
     direction |-> dir]

NoGraph == CitationGraph(NoId, <<>>, <<>>, 0, NoId)

(* dict helpers: a dict is the sequence of its items in insertion order *)
Keys(d)      == {d[i].key : i \in 1..Len(d)}
Lookup(d, k) == (CHOOSE i \in 1..Len(d) : d[i].key = k)
Get(d, k)    == d[Lookup(d, k)].val
Put(d, k, v) ==
    IF k \in Keys(d)
    THEN [d EXCEPT ![Lookup(d, k)] = [key |-> k, val |-> v]]
    ELSE Append(d, [key |-> k, val |-> v])

----------------------------------------------------------------------------
(* The upstream metadata service *)

Unasked == [st |-> "unasked", paperId |-> NoId]

(* Payload of a paper record: the upstream has no title for paper "B" *)
UpTitle(id)   == IF id = "B" THEN NoId ELSE "T"
UpPayload(id) == [paperId |-> id, title |-> UpTitle(id)]

(* Contexts of an arc: the upstream has one context for arcs with paper "A" *)
UpContexts(id) == IF id = "A" THEN <<"ctx">> ELSE <<>>

(* Outcomes of a request: a status, no response at all, or a 200 whose     *)
(* payload cannot be decoded                                               *)
TransportFailures == {"timeout", "connect_error"}
ErrorStatuses     == {"404", "429", "500"}
FailedOutcomes    == ErrorStatuses \cup TransportFailures \cup {"malformed"}

(* Answers to GET /paper/{id}.  The id sent for "" is "ARXIV:"; whatever   *)
(* record the upstream holds for it carries an id of its own.              *)
PaperAnswers(id) ==
    {[st |-> "404", paperId |-> NoId]}
    \cup {[st |-> "200", paperId |-> p] : p \in (IF id = "" THEN Ids ELSE {id})}

UnaskedList == [st |-> "unasked", items |-> {}]

ListKinds == {"citation", "reference"}

(* What an answer tells beyond the default (no such paper, empty list) *)
PaperCost(a) == IF a.st = "200" THEN 1 ELSE 0
ListCost(a)  == IF a.st = "raise" THEN 1 ELSE Cardinality(a.items)

RECURSIVE SumOver(_, _)
SumOver(cost, S) ==
    IF S = {} THEN 0
    ELSE LET x == CHOOSE y \in S : TRUE
         IN cost[x] + SumOver(cost, S \ {x})

FactsUsed(up, ul) ==
    SumOver([x \in DOMAIN up |-> PaperCost(up[x])], DOMAIN up)
    + SumOver([x \in DOMAIN ul |-> ListCost(ul[x])], DOMAIN ul)

(* Answers to a list request: a page of papers (empty when the upstream    *)
(* has none), or the client call raises before the request is sent.        *)
ListAnswers ==
    {[st |-> "200", items |-> S] : S \in SUBSET Ids}
    \cup {[st |-> "raise", items |-> {}]}

(* The page the upstream returns for a list with the given limit *)
UpstreamPage(items, limit) ==
    Slice(SelectSeq(IdsSeq, LAMBDA x : x \in items), Max(limit, 0))

----------------------------------------------------------------------------
(* core/client.py *)

(* Outcome of a client method: a returned value or an exception that       *)
(* leaves the method                                                       *)
Returns(v) == [raised |-> "none", value |-> v]
Raises(e)  == [raised |-> e, value |-> <<>>]

(* _parse_paper_dict: paper_id = original_id or data.get("paperId", "unknown") *)
_parse_paper_dict(data, original_id) ==
    PaperInfo(
        IF original_id # NoId /\ original_id # ""
            THEN original_id
            ELSE IF data.paperId = MissingKey THEN "unknown" ELSE data.paperId,
        IF data.title = NoId \/ data.title = MissingKey \/ data.title = ""
            THEN "Unknown Title"
            ELSE data.title)

(* the body of a try block: the request, the 404 test, raise_for_status,   *)
(* the decoding; parsed is the value built from a well-formed payload      *)
TryRequest(answer, notFound, parsed) ==
    IF answer.st \in TransportFailures THEN Raises("TransportError")
    ELSE IF answer.st = "404" THEN Returns(notFound)
    ELSE IF answer.st # "200" /\ answer.st # "malformed"
         THEN Raises("HTTPStatusError")
    ELSE IF answer.st = "malformed" THEN Raises("DecodeError")
    ELSE Returns(parsed)

(* mutant: only HTTPStatusError is caught, other exceptions escape *)
CatchAllNarrow(r, fallback) ==
    IF r.raised = "HTTPStatusError" THEN Returns(fallback) ELSE r

(* except httpx.HTTPStatusError / except Exception: log, return fallback *)
CatchAll(r, fallback) ==
    IF r.raised = "HTTPStatusError" THEN Returns(fallback)
    ELSE IF r.raised # "none" THEN Returns(fallback)
    ELSE r

(* get_paper: the value <<>> is None, <<p>> is the PaperInfo p *)
get_paper(paper_id, answer) ==
    CatchAll(TryRequest(answer, <<>>,
                        << _parse_paper_dict(UpPayload(answer.paperId), paper_id) >>),
             <<>>)

(* mutant: the placeholder takes the parser's default title *)
PlaceholderParsedTitle(paper_id) == PaperInfo(paper_id, "Unknown Title")

Placeholder(paper_id) == PaperInfo(paper_id, "Unknown")

(* the pivot of a list request: get_paper, or the placeholder when None *)
PivotPaper(paper_id, paperAnswer) ==
    IF get_paper(paper_id, paperAnswer).value = <<>>
    THEN Placeholder(paper_id)
    ELSE get_paper(paper_id, paperAnswer).value[1]

(* the limit a list request of the client carries *)
ClientListLimit(limit) == limit

(* the limit a search request of the client carries *)
ClientSearchLimit(limit) == Min(limit, S2MaxLimit)

(* get_citations: a call that raises before the try block escapes; inside  *)
(* the try block every failure ends in an empty list                       *)
get_citations(paper_id, limit, paperAnswer, listAnswer) ==
    IF listAnswer.st = "raise" THEN Raises("ClientError")
    ELSE LET page == UpstreamPage(listAnswer.items, ClientListLimit(limit))
             citations ==
                 [i \in 1..Len(page) |->
                     CitationRelationship(
                         _parse_paper_dict(UpPayload(page[i]), NoId),
                         PivotPaper(paper_id, paperAnswer),
                         UpContexts(page[i]))]
         IN CatchAll(TryRequest(listAnswer, <<>>, citations), <<>>)

(* get_references *)
get_references(paper_id, limit, paperAnswer, listAnswer) ==
    IF listAnswer.st = "raise" THEN Raises("ClientError")
    ELSE LET page == UpstreamPage(listAnswer.items, ClientListLimit(limit))
             references ==
                 [i \in 1..Len(page) |->
                     CitationRelationship(
                         PivotPaper(paper_id, paperAnswer),
                         _parse_paper_dict(UpPayload(page[i]), NoId),
                         UpContexts(page[i]))]
         IN CatchAll(TryRequest(listAnswer, <<>>, references), <<>>)

(* search_papers: the limit is clamped, failures end in an empty list *)
search_papers(limit, listAnswer) ==
    LET page == UpstreamPage(listAnswer.items, ClientSearchLimit(limit))
        found == [i \in 1..Len(page) |->
                     _parse_paper_dict(UpPayload(page[i]), NoId)]
    IN CatchAll(
           IF listAnswer.st \in TransportFailures THEN Raises("TransportError")
           ELSE IF listAnswer.st \notin {"200", "malformed"}
                THEN Raises("HTTPStatusError")
           ELSE IF listAnswer.st = "malformed" THEN Raises("DecodeError")
           ELSE Returns(found),
           <<>>)

----------------------------------------------------------------------------
(* core/graph.py *)

(* mutant: no upper end of the clamp *)
ClampDepthNoUpper(d) == Max(d, 1)

ClampDepth(d) == Min(Max(d, 1), 3)

Pending == [status |-> "pending", relationships |-> <<>>, rel_type |-> NoId]
Raised  == [status |-> "raised", relationships |-> <<>>, rel_type |-> NoId]

(* _fetch_citations / _fetch_references: the value gather collects *)
_fetch_citations(paper_id, paperAnswer, listAnswer) ==
    LET citations ==
            get_citations(paper_id, max_papers_per_level, paperAnswer, listAnswer)
    IN IF citations.raised # "none" THEN Raised
       ELSE [status |-> "ok", relationships |-> citations.value,
             rel_type |-> "citation"]

_fetch_references(paper_id, paperAnswer, listAnswer) ==
    LET references ==
            get_references(paper_id, max_papers_per_level, paperAnswer, listAnswer)
    IN IF references.raised # "none" THEN Raised
       ELSE [status |-> "ok", relationships |-> references.value,
             rel_type |-> "reference"]

Task(kind, paper_id) == [kind |-> kind, paper_id |-> paper_id]

(* mutant: the second branch enqueues the citations fetch again *)
RECURSIVE BuildTasksCitationsTwice(_, _, _, _)
BuildTasksCitationsTwice(order, vis, dir, acc) ==
    IF order = <<>> THEN [tasks |-> acc, visited |-> vis]
    ELSE LET paper_id == Head(order)
         IN IF paper_id \in vis
            THEN BuildTasksCitationsTwice(Tail(order), vis, dir, acc)
            ELSE LET t1 == IF dir \in {"citations", "both"}
                           THEN Append(acc, Task("citation", paper_id)) ELSE acc
                     t2 == IF dir \in {"references", "both"}
                           THEN Append(t1, Task("citation", paper_id)) ELSE t1
                 IN BuildTasksCitationsTwice(Tail(order), vis \cup {paper_id},
                                             dir, t2)

(* lines 87-96: the tasks of a level, for one iteration order of the frontier *)
RECURSIVE BuildTasks(_, _, _, _)
BuildTasks(order, vis, dir, acc) ==
    IF order = <<>> THEN [tasks |-> acc, visited |-> vis]
    ELSE LET paper_id == Head(order)
         IN IF paper_id \in vis
            THEN BuildTasks(Tail(order), vis, dir, acc)
            ELSE LET t1 == IF dir \in {"citations", "both"}
                           THEN Append(acc, Task("citation", paper_id)) ELSE acc
                     t2 == IF dir \in {"references", "both"}
                           THEN Append(t1, Task("reference", paper_id)) ELSE t1
                 IN BuildTasks(Tail(order), vis \cup {paper_id}, dir, t2)

(* mutant: an edge is also dropped when its reverse is present *)
ProcessRelUndirected(acc, rel, rel_type) ==
    LET other_paper == IF rel_type = "citation" THEN rel.citing_paper
                                                ELSE rel.cited_paper
        edge == IF rel_type = "citation"
                THEN <<other_paper.paper_id, rel.cited_paper.paper_id>>
                ELSE <<rel.citing_paper.paper_id, other_paper.paper_id>>
        isNew == other_paper.paper_id \notin Keys(acc.papers)
    IN [papers |-> IF isNew THEN Put(acc.papers, other_paper.paper_id, other_paper)
                            ELSE acc.papers,
        next_level |-> IF isNew THEN acc.next_level \cup {other_paper.paper_id}
                                ELSE acc.next_level,
        edges |-> IF edge \notin SeqToSet(acc.edges)
                     /\ <<edge[2], edge[1]>> \notin SeqToSet(acc.edges)
                  THEN Append(acc.edges, edge)
                  ELSE acc.edges]

(* mutant: the edge is appended without the membership test *)
ProcessRelNoDedupe(acc, rel, rel_type) ==
    LET other_paper == IF rel_type = "citation" THEN rel.citing_paper
                                                ELSE rel.cited_paper
        edge == IF rel_type = "citation"
                THEN <<other_paper.paper_id, rel.cited_paper.paper_id>>
                ELSE <<rel.citing_paper.paper_id, other_paper.paper_id>>
        isNew == other_paper.paper_id \notin Keys(acc.papers)
    IN [papers |-> IF isNew THEN Put(acc.papers, other_paper.paper_id, other_paper)
                            ELSE acc.papers,
        next_level |-> IF isNew THEN acc.next_level \cup {other_paper.paper_id}
                                ELSE acc.next_level,
        edges |-> Append(acc.edges, edge)]

(* lines 109-124: one relationship *)
ProcessRel(acc, rel, rel_type) ==
    LET other_paper == IF rel_type = "citation" THEN rel.citing_paper
                                                ELSE rel.cited_paper
        edge == IF rel_type = "citation"
                THEN <<other_paper.paper_id, rel.cited_paper.paper_id>>
                ELSE <<rel.citing_paper.paper_id, other_paper.paper_id>>
        isNew == other_paper.paper_id \notin Keys(acc.papers)
    IN [papers |-> IF isNew THEN Put(acc.papers, other_paper.paper_id, other_paper)
                            ELSE acc.papers,
        next_level |-> IF isNew THEN acc.next_level \cup {other_paper.paper_id}
                                ELSE acc.next_level,
        edges |-> IF edge \notin SeqToSet(acc.edges) THEN Append(acc.edges, edge)
                                                     ELSE acc.edges]

RECURSIVE ProcessRels(_, _, _)
ProcessRels(acc, rels, rel_type) ==
    IF rels = <<>> THEN acc
    ELSE ProcessRels(ProcessRel(acc, Head(rels), rel_type), Tail(rels), rel_type)

(* lines 102-108: one result of gather *)
ProcessResult(acc, result) ==
    IF result.status = "raised" THEN acc
    ELSE ProcessRels(acc, Slice(result.relationships, max_papers_per_level),
                     result.rel_type)

(* mutant: the result loop ends after its first result *)
ProcessResultsFirstOnly(acc, rs) ==
    IF rs = <<>> THEN acc ELSE ProcessResult(acc, Head(rs))

(* mutant: a raised result ends the result loop (break for continue) *)
RECURSIVE ProcessResultsBreakOnRaise(_, _)
ProcessResultsBreakOnRaise(acc, rs) ==
    IF rs = <<>> THEN acc
    ELSE IF Head(rs).status = "raised" THEN acc
         ELSE ProcessResultsBreakOnRaise(ProcessResult(acc, Head(rs)), Tail(rs))

RECURSIVE ProcessResults(_, _)
ProcessResults(acc, rs) ==
    IF rs = <<>> THEN acc
    ELSE ProcessResults(ProcessResult(acc, Head(rs)), Tail(rs))

----------------------------------------------------------------------------
(* GraphBuilder.build as a state machine *)

NoLimit == -1

NoCall ==
    [name |-> "none", paper_id |-> NoId, limit |-> NoLimit,
     include_contexts |-> TRUE, paper |-> Unasked, list |-> UnaskedList,
     sent_limit |-> NoLimit, raised |-> "none", value |-> <<>>]

IdleBuild ==
    /\ pc = "start"
    /\ depth = 0
    /\ papers = <<>>
    /\ edges = <<>>
    /\ visited = {}
    /\ current_level = {}
    /\ current_depth = 0
    /\ tasks = <<>>
    /\ results = <<>>
    /\ graph = NoGraph
    /\ failure = "none"
    /\ taskLog = <<>>

NoClustering ==
    [clusters |-> <<>>, unclustered_papers |-> <<>>, total_papers |-> -1,
     method |-> NoId]

IdleCluster ==
    /\ min_cluster_size = 0
    /\ max_iterations = 0
    /\ hashOrder = <<>>
    /\ labels = <<>>
    /\ iteration = 0
    /\ changed = FALSE
    /\ clustering = NoClustering

NoGapResult ==
    [gaps |-> <<>>, analyzed_paper_count |-> -1, analysis_depth |-> -1]

NoComparison == [papers |-> <<>>, created |-> FALSE]

IdleResults ==
    /\ gapResult = NoGapResult
    /\ comparison = NoComparison

IdleAnalysis ==
    /\ simBack = <<>>
    /\ IdleCluster
    /\ IdleResults

IdleService ==
    /\ method = NoId
    /\ top_k = 0
    /\ similarities = <<>>
    /\ paper_ids = <<>>
    /\ cmp_i = 0
    /\ IdleAnalysis

InitBuild ==
    /\ root_paper_id \in Roots
    /\ depthArg \in DepthArgs
    /\ direction \in DirectionArgs
    /\ max_papers_per_level \in PerLevelArgs
    /\ upPaper = [id \in Ids |-> Unasked]
    /\ upList = [r \in ListKinds \X Ids |-> UnaskedList]
    /\ IdleBuild
    /\ builds = 1
    /\ prevGraph = NoGraph
    /\ prevTaskLog = <<>>
    /\ op = "build_citation_graph"
    /\ requests = 0
    /\ call = NoCall
    /\ IdleService

(* lines 62-77: clamp the depth, fetch the root, seed the frontier *)
BuildStart ==
    /\ pc = "start"
    /\ \E answer \in (IF upPaper[root_paper_id] = Unasked
                      THEN PaperAnswers(root_paper_id)
                      ELSE {upPaper[root_paper_id]}) :
          /\ upPaper' = [upPaper EXCEPT ![root_paper_id] = answer]
          /\ FactsUsed(upPaper', upList) <= MaxFacts
          /\ papers' = Put(<<>>, root_paper_id,
                           PivotPaper(root_paper_id, answer))
    /\ depth' = ClampDepth(depthArg)
    /\ edges' = <<>>
    /\ visited' = {}
    /\ current_level' = {root_paper_id}
    /\ current_depth' = 0
    /\ pc' = "level"
    /\ requests' = requests + 1
    /\ UNCHANGED <<upList, tasks, results, graph, failure, taskLog>>
    /\ UNCHANGED <<inputVars, histVars, op, call, svcVars>>

(* lines 79-99: enqueue the tasks of the level and hand them to gather *)
LevelStart ==
    /\ pc = "level"
    /\ \E order \in Perms(current_level) :
          LET bt == BuildTasks(order, visited, direction, <<>>)
          IN /\ tasks' = bt.tasks
             /\ visited' = bt.visited
             /\ results' = [i \in 1..Len(bt.tasks) |-> Pending]
             /\ taskLog' = Append(taskLog, bt.tasks)
    /\ pc' = "gather"
    /\ UNCHANGED <<depth, papers, edges, current_level, current_depth, graph,
                   failure>>
    /\ UNCHANGED <<inputVars, upVars, histVars, op, requests, call, svcVars>>

(* one fetch task runs to completion (lines 145-163 and the client call) *)
TaskComplete(i) ==
    /\ pc = "gather"
    /\ results[i] = Pending
    /\ LET t == tasks[i]
           key == <<t.kind, t.paper_id>>
       IN \E la \in (IF upList[key] = UnaskedList THEN ListAnswers
                                                   ELSE {upList[key]}),
             pa \in (IF upPaper[t.paper_id] = Unasked
                     THEN PaperAnswers(t.paper_id)
                     ELSE {upPaper[t.paper_id]}) :
             /\ upList' = [upList EXCEPT ![key] = la]
             /\ upPaper' = IF la.st = "raise" THEN upPaper
                           ELSE [upPaper EXCEPT ![t.paper_id] = pa]
             /\ FactsUsed(upPaper', upList') <= MaxFacts
             /\ results' = [results EXCEPT ![i] =
                    IF t.kind = "citation"
                    THEN _fetch_citations(t.paper_id, pa, la)
                    ELSE _fetch_references(t.paper_id, pa, la)]
             /\ requests' = IF la.st = "raise" THEN requests ELSE requests + 2
    /\ UNCHANGED <<pc, depth, papers, edges, visited, current_level,
                   current_depth, tasks, graph, failure, taskLog>>
    /\ UNCHANGED <<inputVars, histVars, op, call, svcVars>>

(* mutant: gather returns as soon as one task has completed *)
GatherReturnedFirst(rs) ==
    rs = <<>> \/ \E i \in 1..Len(rs) : rs[i] # Pending

(* await asyncio.gather(tasks, return_exceptions=True) returns when every  *)
(* task has completed or raised                                            *)
GatherReturned(rs) == \A i \in 1..Len(rs) : rs[i] # Pending

(* lines 101-143: gather has returned; merge the results, advance the level *)
(* loop and, when it ends, return the graph                                *)
LevelEnd ==
    /\ pc = "gather"
    /\ GatherReturned(results)
    /\ LET acc == ProcessResults(
                      [papers |-> papers, edges |-> edges, next_level |-> {}],
                      results)
           finished == acc.next_level = {} \/ current_depth + 1 >= depth
       IN /\ papers' = acc.papers
          /\ edges' = acc.edges
          /\ current_level' = acc.next_level
          /\ current_depth' = current_depth + 1
          /\ pc' = IF finished THEN "done" ELSE "level"
          /\ graph' = IF finished
                      THEN CitationGraph(root_paper_id, acc.papers, acc.edges,
                                         depth, direction)
                      ELSE graph
    /\ UNCHANGED <<depth, visited, tasks, results, failure, taskLog>>
    /\ UNCHANGED <<inputVars, upVars, histVars, op, requests, call, svcVars>>

(* the same build is requested again, against the same upstream *)
Rebuild ==
    /\ pc = "done"
    /\ builds < MaxBuilds
    /\ builds' = builds + 1
    /\ prevGraph' = graph
    /\ prevTaskLog' = taskLog
    /\ pc' = "start"
    /\ depth' = 0
    /\ papers' = <<>>
    /\ edges' = <<>>
    /\ visited' = {}
    /\ current_level' = {}
    /\ current_depth' = 0
    /\ tasks' = <<>>
    /\ results' = <<>>
    /\ graph' = NoGraph
    /\ failure' = "none"
    /\ taskLog' = <<>>
    /\ requests' = 0
    /\ UNCHANGED <<inputVars, upVars, op, call, svcVars>>

NextBuild ==
    \/ BuildStart
    \/ LevelStart
    \/ \E i \in 1..Len(tasks) : TaskComplete(i)
    \/ LevelEnd
    \/ Rebuild

SpecBuild == InitBuild /\ [][NextBuild]_vars

----------------------------------------------------------------------------
(* core/service.py: get_citations, get_references *)

(* limit = min(limit, 100) *)
ServiceLimit(limit) == Min(limit, S2MaxLimit)

(* cit.contexts.clear() for every relationship *)
StripContexts(rels) ==
    [i \in 1..Len(rels) |-> [rels[i] EXCEPT !.contexts = <<>>]]

CitationService_get_citations(arxiv_id, limit, include_contexts, pa, la) ==
    LET citations == get_citations(arxiv_id, ServiceLimit(limit), pa, la)
    IN IF citations.raised # "none" \/ include_contexts THEN citations
       ELSE Returns(StripContexts(citations.value))

CitationService_get_references(arxiv_id, limit, include_contexts, pa, la) ==
    LET references == get_references(arxiv_id, ServiceLimit(limit), pa, la)
    IN IF references.raised # "none" \/ include_contexts THEN references
       ELSE Returns(StripContexts(references.value))

----------------------------------------------------------------------------
(* Single calls of the client and of the service, for every outcome of the *)
(* requests they send                                                      *)

LimitArgs ==
    {0, 1, S2MaxLimit - 1, S2MaxLimit, S2MaxLimit + 1, 5 * S2MaxLimit}

(* every outcome of GET /paper/{id} *)
PaperOutcomes(id) ==
    PaperAnswers(id)
    \cup {[st |-> o, paperId |-> NoId] : o \in FailedOutcomes}

(* every outcome of a list or search request *)
ListOutcomes ==
    {[st |-> "200", items |-> S] : S \in SUBSET Ids}
    \cup {[st |-> o, items |-> {}] : o \in FailedOutcomes}

InitClient ==
    /\ root_paper_id \in Roots
    /\ depthArg = 1
    /\ direction = "both"
    /\ max_papers_per_level \in LimitArgs
    /\ upPaper = [id \in Ids |-> Unasked]
    /\ upList = [r \in ListKinds \X Ids |-> UnaskedList]
    /\ IdleBuild
    /\ builds = 1
    /\ prevGraph = NoGraph
    /\ prevTaskLog = <<>>
    /\ op = "call"
    /\ requests = 0
    /\ call = NoCall
    /\ IdleService

CallFrame ==
    UNCHANGED <<inputVars, upVars, buildVars, histVars, op, requests, svcVars>>

(* one call is made on a fresh client *)
NoCallYet == call = NoCall

MakeCall(name, id, limit, ctx, pa, la, sent, outcome) ==
    [name |-> name, paper_id |-> id, limit |-> limit, include_contexts |-> ctx,
     paper |-> pa, list |-> la, sent_limit |-> sent,
     raised |-> outcome.raised, value |-> outcome.value]

ClientGetPaper ==
    /\ NoCallYet
    /\ \E id \in Ids : \E pa \in PaperOutcomes(id) :
          call' = MakeCall("get_paper", id, NoLimit, TRUE, pa, UnaskedList,
                           NoLimit, get_paper(id, pa))
    /\ CallFrame

ClientGetCitations ==
    /\ NoCallYet
    /\ \E id \in Ids, limit \in LimitArgs, la \in ListOutcomes :
          \E pa \in PaperOutcomes(id) :
             call' = MakeCall("get_citations", id, limit, TRUE, pa, la,
                              ClientListLimit(limit),
                              get_citations(id, limit, pa, la))
    /\ CallFrame

ClientGetReferences ==
    /\ NoCallYet
    /\ \E id \in Ids, limit \in LimitArgs, la \in ListOutcomes :
          \E pa \in PaperOutcomes(id) :
             call' = MakeCall("get_references", id, limit, TRUE, pa, la,
                              ClientListLimit(limit),
                              get_references(id, limit, pa, la))
    /\ CallFrame

ClientSearchPapers ==
    /\ NoCallYet
    /\ \E limit \in LimitArgs, la \in ListOutcomes :
          call' = MakeCall("search_papers", NoId, limit, TRUE, Unasked, la,
                           ClientSearchLimit(limit), search_papers(limit, la))
    /\ CallFrame

ServiceGetCitations ==
    /\ NoCallYet
    /\ \E id \in Ids, limit \in LimitArgs, la \in ListOutcomes,
          ctx \in BOOLEAN :
          \E pa \in PaperOutcomes(id) :
             call' = MakeCall("CitationService.get_citations", id, limit, ctx,
                              pa, la, ClientListLimit(ServiceLimit(limit)),
                              CitationService_get_citations(id, limit, ctx, pa, la))
    /\ CallFrame

ServiceGetReferences ==
    /\ NoCallYet
    /\ \E id \in Ids, limit \in LimitArgs, la \in ListOutcomes,
          ctx \in BOOLEAN :
          \E pa \in PaperOutcomes(id) :
             call' = MakeCall("CitationService.get_references", id, limit, ctx,
                              pa, la, ClientListLimit(ServiceLimit(limit)),
                              CitationService_get_references(id, limit, ctx, pa, la))
    /\ CallFrame

(* one fetch task of a GraphBuilder built with max_papers_per_level *)
BuilderFetch ==
    /\ NoCallYet
    /\ \E id \in Ids, kind \in ListKinds, la \in ListOutcomes :
          \E pa \in PaperOutcomes(id) :
             call' = MakeCall(
                 IF kind = "citation" THEN "GraphBuilder._fetch_citations"
                                      ELSE "GraphBuilder._fetch_references",
                 id, max_papers_per_level, TRUE, pa, la,
                 ClientListLimit(max_papers_per_level),
                 Returns(IF kind = "citation"
                         THEN _fetch_citations(id, pa, la).relationships
                         ELSE _fetch_references(id, pa, la).relationships))
    /\ CallFrame

NextClient ==
    \/ ClientGetPaper
    \/ ClientGetCitations
    \/ ClientGetReferences
    \/ ClientSearchPapers
    \/ ServiceGetCitations
    \/ ServiceGetReferences
    \/ BuilderFetch

SpecClient == InitClient /\ [][NextClient]_vars

----------------------------------------------------------------------------
(* core/analysis.py: SimilarityAnalyzer.  Scores are exact fractions n/d.  *)

Methods    == {"co_citation", "bibliographic_coupling", "citation_overlap"}
MethodArgs == Methods \cup {"cosine"}

Frac(n, d)    == [n |-> n, d |-> d]
FracGt(a, b)  == a.n * b.d > b.n * a.d

(* _build_indexes *)
Cites(g, p)   == {g.edges[i][2] : i \in {j \in 1..Len(g.edges) : g.edges[j][1] = p}}
CitedBy(g, p) == {g.edges[i][1] : i \in {j \in 1..Len(g.edges) : g.edges[j][2] = p}}

(* mutant: the Dice coefficient 2|X & Y| / (|X| + |Y|) *)
JaccardDice(X, Y) ==
    IF X \cup Y = {} THEN Frac(0, 1)
    ELSE Frac(2 * Cardinality(X \cap Y), Cardinality(X) + Cardinality(Y))

Jaccard(X, Y) ==
    IF X \cup Y = {} THEN Frac(0, 1)
    ELSE Frac(Cardinality(X \cap Y), Cardinality(X \cup Y))

(* mutant: the shared papers are counted against those of paper_a alone *)
_compute_pair_similarity_OverFirst(g, paper_a, paper_b, m) ==
    LET over(X, Y) == IF X = {} THEN Frac(0, 1)
                      ELSE Frac(Cardinality(X \cap Y), Cardinality(X))
        refs   == over(Cites(g, paper_a), Cites(g, paper_b))
        citers == over(CitedBy(g, paper_a), CitedBy(g, paper_b))
    IN [score |-> IF m = "bibliographic_coupling" THEN refs
                  ELSE IF m = "co_citation" THEN citers
                  ELSE Frac(2 * refs.n * citers.d + 3 * citers.n * refs.d,
                            5 * refs.d * citers.d),
        shared_refs   |-> Cites(g, paper_a) \cap Cites(g, paper_b),
        shared_citers |-> CitedBy(g, paper_a) \cap CitedBy(g, paper_b)]

(* _compute_pair_similarity *)
_compute_pair_similarity(g, paper_a, paper_b, m) ==
    LET refs   == Jaccard(Cites(g, paper_a), Cites(g, paper_b))
        citers == Jaccard(CitedBy(g, paper_a), CitedBy(g, paper_b))
    IN [score |-> IF m = "bibliographic_coupling" THEN refs
                  ELSE IF m = "co_citation" THEN citers
                  ELSE Frac(2 * refs.n * citers.d + 3 * citers.n * refs.d,
                            5 * refs.d * citers.d),
        shared_refs   |-> Cites(g, paper_a) \cap Cites(g, paper_b),
        shared_citers |-> CitedBy(g, paper_a) \cap CitedBy(g, paper_b)]

(* _explain_similarity: the strength word of the explanation *)
_explain_similarity(score) ==
    IF FracGt(score, Frac(1, 2)) THEN "strong"
    ELSE IF FracGt(score, Frac(1, 5)) THEN "moderate"
    ELSE "weak"

(* mutant: the scores are left in the order of papers *)
SortByScoreUnsorted(items) == items

(* sorted(..., key=score, reverse=True): stable, equal scores keep order *)
RECURSIVE SortByScore(_)
SortByScore(items) ==
    IF items = <<>> THEN <<>>
    ELSE LET rest == SortByScore(Tail(items))
             x    == Head(items)
             k    == Cardinality({i \in 1..Len(rest) : FracGt(rest[i].score, x.score)})
         IN SubSeq(rest, 1, k) \o <<x>> \o SubSeq(rest, k + 1, Len(rest))

(* compute_similarity *)
compute_similarity(g, paper_id, m, k) ==
    IF paper_id \notin Keys(g.papers) THEN <<>>
    ELSE LET others == SelectSeq([i \in 1..Len(g.papers) |-> g.papers[i].key],
                                 LAMBDA o : o # paper_id)
             scored == [i \in 1..Len(others) |->
                           [other_id |-> others[i]]
                           @@ _compute_pair_similarity(g, paper_id, others[i], m)]
             positive   == SelectSeq(scored, LAMBDA x : x.score.n > 0)
             top_papers == Slice(SortByScore(positive), k)
         IN [i \in 1..Len(top_papers) |->
                [paper_a |-> Get(g.papers, paper_id),
                 paper_b |-> Get(g.papers, top_papers[i].other_id),
                 similarity_score |-> top_papers[i].score,
                 method |-> m,
                 shared_citations |-> top_papers[i].shared_refs,
                 shared_citers |-> top_papers[i].shared_citers,
                 explanation |-> _explain_similarity(top_papers[i].score)]]

----------------------------------------------------------------------------
(* core/service.py: find_similar_papers, compare_papers *)

MaxTopK    == 2      \* largest top_k tried
MaxCompare == 2      \* longest paper_ids list handed to compare_papers
MaxCompareFacts == 4 \* papers found, arcs listed and raising calls of one comparison

(* service.py:151: max_papers_per_level of build_citation_graph *)
DefaultPerLevel == 25

(* service.py:433,440: limit of the list requests of _build_graph_from_papers *)
CompareLimit == 50

(* method_map.get(method, SimilarityMethod.CITATION_OVERLAP) *)
MethodMap(m) == IF m \in Methods THEN m ELSE "citation_overlap"

(* mutant: a single paper is accepted *)
CompareArgsValidAtLeastOne(ids) == Len(ids) >= 1

(* compare_papers: the entry test len(paper_ids) < 2 *)
CompareArgsValid(ids) == ~(Len(ids) < 2)

IdLists == UNION {[1..n -> Ids] : n \in 0..MaxCompare}

InitService ==
    /\ upPaper = [id \in Ids |-> Unasked]
    /\ upList = [r \in ListKinds \X Ids |-> UnaskedList]
    /\ IdleBuild
    /\ builds = 1
    /\ prevGraph = NoGraph
    /\ prevTaskLog = <<>>
    /\ requests = 0
    /\ call = NoCall
    /\ similarities = <<>>
    /\ cmp_i = 0
    /\ IdleAnalysis
    /\ \/ /\ op = "find_similar_papers"
          /\ root_paper_id \in Roots
          /\ depthArg \in DepthArgs
          /\ direction = "both"
          /\ max_papers_per_level = DefaultPerLevel
          /\ method \in MethodArgs
          /\ top_k \in 0..MaxTopK
          /\ paper_ids = <<>>
       \/ /\ op = "compare_papers"
          /\ root_paper_id = NoId
          /\ depthArg = 1
          /\ direction = "both"
          /\ max_papers_per_level = DefaultPerLevel
          /\ method = NoId
          /\ top_k = 0
          /\ paper_ids \in IdLists

(* find_similar_papers, after the graph is built: map the method name and  *)
(* compute the similarities                                                *)
FindSimilarFinish ==
    /\ op = "find_similar_papers"
    /\ pc = "done"
    /\ similarities' =
           compute_similarity(graph, root_paper_id, MethodMap(method), top_k)
    /\ pc' = "returned"
    /\ UNCHANGED <<depth, papers, edges, visited, current_level, current_depth,
                   tasks, results, graph, failure, taskLog>>
    /\ UNCHANGED <<inputVars, upVars, histVars, op, requests, call, method,
                   top_k, paper_ids, cmp_i, anaVars>>

(* core/analysis.py: ComparisonAnalyzer *)

(* analysis.py:802,804: shared_references[:10], shared_citers[:10] *)
SharedLimit == 10

(* analysis.py:770: unique references of a paper, [:5] *)
UniqueLimit == 5

(* [self.graph.papers[x] for x in ids if x in self.graph.papers] *)
PapersIn(g, ids) ==
    LET known == SelectSeq(ids, LAMBDA x : x \in Keys(g.papers))
    IN [i \in 1..Len(known) |-> Get(g.papers, known[i])]

(* set.intersection and set.union over a non-empty list of sets *)
IntersectionAll(sets) ==
    {x \in sets[1] : \A i \in 1..Len(sets) : x \in sets[i]}

UnionAll(sets) == UNION {sets[i] : i \in 1..Len(sets)}

(* unique = paper_refs - (all_refs - paper_refs) *)
UniqueRefs(paper_refs, all_refs) == paper_refs \ (all_refs \ paper_refs)

RECURSIVE UniqueReferences(_, _, _, _, _)
UniqueReferences(g, ps, all_refs, order, i) ==
    IF i = 0 THEN <<>>
    ELSE Put(UniqueReferences(g, ps, all_refs, order, i - 1),
             ps[i].paper_id,
             Slice(PapersIn(g, SetIter(UniqueRefs(Cites(g, ps[i].paper_id),
                                                  all_refs), order)),
                   UniqueLimit))

(* analysis.py:812-825, 846-859: stop_words of the two title functions *)
ComparisonStopWords ==
    {"a", "an", "the", "of", "in", "for", "on", "with", "to", "and", "is",
     "are"}

(* [w.lower() for w in re.findall(...) if w.lower() not in stop_words] *)
CompareTokens(title) ==
    SelectSeq(FindWords(title), LAMBDA w : w \notin ComparisonStopWords)

(* analysis.py:840: list(common)[:5] *)
ThemeLimit == 5

(* analysis.py:879: unique[:3] *)
AspectLimit == 3

_extract_common_themes(ps, order) ==
    IF ps = <<>> THEN <<>>
    ELSE Slice(SetIter(IntersectionAll(
                   [i \in 1..Len(ps) |-> SeqToSet(CompareTokens(ps[i].title))]),
                       order),
               ThemeLimit)

(* all_words.update(words) for every paper: the words with their repeats *)
RECURSIVE AllWords(_)
AllWords(ps) ==
    IF ps = <<>> THEN <<>>
    ELSE CompareTokens(Head(ps).title) \o AllWords(Tail(ps))

(* the second loop of _find_distinguishing_aspects, up to paper i *)
RECURSIVE DistinguishingAspects(_, _, _)
DistinguishingAspects(ps, order, i) ==
    IF i = 0 THEN <<>>
    ELSE LET paper_words ==
                 SeqToSet(CompareTokens(
                     ps[CHOOSE j \in 1..Len(ps) :
                            /\ ps[j].paper_id = ps[i].paper_id
                            /\ \A k \in (j + 1)..Len(ps) :
                                  ps[k].paper_id # ps[i].paper_id].title))
             unique == SelectSeq(SetIter(paper_words, order),
                                 LAMBDA w : CountOf(AllWords(ps), w) = 1)
         IN Put(DistinguishingAspects(ps, order, i - 1), ps[i].paper_id,
                Slice(unique, AspectLimit))

_find_distinguishing_aspects(ps, order) ==
    DistinguishingAspects(ps, order, Len(ps))

PaperComparison(ps, shared_refs, unique_refs, citers, overlap_score, themes, aspects) ==
    [papers |-> ps,
     shared_references |-> shared_refs,
     unique_references |-> unique_refs,
     shared_citers |-> citers,
     citation_overlap_score |-> overlap_score,
     common_themes |-> themes,
     distinguishing_aspects |-> aspects,
     created |-> TRUE]

(* ComparisonAnalyzer(graph).compare_papers(paper_ids); order is the order *)
(* in which this process iterates a set of ids                             *)
AnalyzerComparePapers(g, ids, order) ==
    LET ps == PapersIn(g, ids)
    IN IF Len(ps) < 2
       THEN PaperComparison(ps, <<>>, <<>>, <<>>, Frac(0, 1), <<>>, <<>>)
       ELSE LET reference_sets == [i \in 1..Len(ps) |-> Cites(g, ps[i].paper_id)]
                citer_sets == [i \in 1..Len(ps) |-> CitedBy(g, ps[i].paper_id)]
                shared_ref_ids   == IntersectionAll(reference_sets)
                shared_citer_ids == IntersectionAll(citer_sets)
                all_citers       == UnionAll(citer_sets)
            IN PaperComparison(
                   ps,
                   Slice(PapersIn(g, SetIter(shared_ref_ids, order)), SharedLimit),
                   UniqueReferences(g, ps, UnionAll(reference_sets), order,
                                    Len(ps)),
                   Slice(PapersIn(g, SetIter(shared_citer_ids, order)),
                         SharedLimit),
                   IF all_citers = {} THEN Frac(0, 1)
                   ELSE Frac(Cardinality(shared_citer_ids),
                             Cardinality(all_citers)),
                   _extract_common_themes(ps, order),
                   _find_distinguishing_aspects(ps, order))

(* the ids and the title words of the model, in the two orders of set     *)
(* iteration tried                                                         *)
IdUniverse ==
    <<"", "A", "B", "X", "Y", "Z", "W", "V",
      "P1", "P2", "R1", "R2", "R3", "R4",
      "unknown", "title", "model", "graph", "learning", "from", "data",
      "graphs", "the">>

HashOrders ==
    {IdUniverse, [i \in 1..Len(IdUniverse) |-> IdUniverse[Len(IdUniverse) + 1 - i]]}

(* compare_papers, entry: fewer than 2 ids raise ValueError *)
CompareStart ==
    /\ op = "compare_papers"
    /\ pc = "start"
    /\ IF CompareArgsValid(paper_ids)
       THEN /\ pc' = "cmp_loop"
            /\ cmp_i' = 1
            /\ failure' = failure
       ELSE /\ pc' = "failed"
            /\ cmp_i' = cmp_i
            /\ failure' = "ValueError"
    /\ UNCHANGED <<depth, papers, edges, visited, current_level, current_depth,
                   tasks, results, graph, taskLog>>
    /\ UNCHANGED <<inputVars, upVars, histVars, op, requests, call, method,
                   top_k, similarities, paper_ids, anaVars>>

RECURSIVE AddReferences(_, _, _)
AddReferences(acc, pid, refs) ==
    IF refs = <<>> THEN acc
    ELSE LET cited == Head(refs).cited_paper
         IN AddReferences(
                [papers |-> IF cited.paper_id \notin Keys(acc.papers)
                            THEN Put(acc.papers, cited.paper_id, cited)
                            ELSE acc.papers,
                 edges |-> Append(acc.edges, <<pid, cited.paper_id>>)],
                pid, Tail(refs))

RECURSIVE AddCitations(_, _, _)
AddCitations(acc, pid, cits) ==
    IF cits = <<>> THEN acc
    ELSE LET citing == Head(cits).citing_paper
         IN AddCitations(
                [papers |-> IF citing.paper_id \notin Keys(acc.papers)
                            THEN Put(acc.papers, citing.paper_id, citing)
                            ELSE acc.papers,
                 edges |-> Append(acc.edges, <<citing.paper_id, pid>>)],
                pid, Tail(cits))

(* _build_graph_from_papers: one pass of the loop over paper_ids; after    *)
(* the last pass the graph is returned                                     *)
CompareFetch ==
    /\ op = "compare_papers"
    /\ pc = "cmp_loop"
    /\ LET pid  == paper_ids[cmp_i]
           last == cmp_i = Len(paper_ids)
       IN \E pa \in (IF upPaper[pid] = Unasked THEN PaperAnswers(pid)
                                               ELSE {upPaper[pid]}),
             lr \in (IF upList[<<"reference", pid>>] = UnaskedList
                     THEN ListAnswers ELSE {upList[<<"reference", pid>>]}),
             lc \in (IF upList[<<"citation", pid>>] = UnaskedList
                     THEN ListAnswers ELSE {upList[<<"citation", pid>>]}) :
             LET paper == get_paper(pid, pa).value
                 refs  == get_references(pid, CompareLimit, pa, lr)
                 cits  == get_citations(pid, CompareLimit, pa, lc)
                 found == paper # <<>>
                 raisedRefs == found /\ refs.raised # "none"
                 raisedCits == found /\ ~raisedRefs /\ cits.raised # "none"
                 acc0 == [papers |-> IF found THEN Put(papers, pid, paper[1])
                                              ELSE papers,
                          edges |-> edges]
                 acc1 == IF found /\ ~raisedRefs
                         THEN AddReferences(acc0, pid, refs.value) ELSE acc0
                 acc2 == IF found /\ ~raisedRefs /\ ~raisedCits
                         THEN AddCitations(acc1, pid, cits.value) ELSE acc1
                 raised == raisedRefs \/ raisedCits
             IN /\ upPaper' = [upPaper EXCEPT ![pid] = pa]
                /\ upList' =
                       IF ~found THEN upList
                       ELSE IF raisedRefs
                            THEN [upList EXCEPT ![<<"reference", pid>>] = lr]
                            ELSE [upList EXCEPT ![<<"reference", pid>>] = lr,
                                                ![<<"citation", pid>>] = lc]
                /\ FactsUsed(upPaper', upList') <= MaxCompareFacts
                /\ papers' = acc2.papers
                /\ edges' = acc2.edges
                /\ requests' = requests + 1
                       + (IF found /\ lr.st # "raise" THEN 2 ELSE 0)
                       + (IF found /\ ~raisedRefs /\ lc.st # "raise" THEN 2 ELSE 0)
                /\ failure' = IF raisedRefs THEN refs.raised
                              ELSE IF raisedCits THEN cits.raised
                              ELSE failure
                /\ pc' = IF raised THEN "failed"
                         ELSE IF last THEN "cmp_built" ELSE "cmp_loop"
                /\ cmp_i' = IF raised THEN cmp_i ELSE cmp_i + 1
                /\ graph' = IF ~raised /\ last
                            THEN CitationGraph(paper_ids[1], acc2.papers,
                                               acc2.edges, 1, "both")
                            ELSE graph
    /\ UNCHANGED <<depth, visited, current_level, current_depth, tasks,
                   results, taskLog>>
    /\ UNCHANGED <<inputVars, histVars, op, call, method, top_k, similarities,
                   paper_ids, anaVars>>

(* compare_papers, after the graph is built (service.py:418-419) *)
CompareFinish ==
    /\ op = "compare_papers"
    /\ pc = "cmp_built"
    /\ \E order \in HashOrders :
          comparison' = AnalyzerComparePapers(graph, paper_ids, order)
    /\ pc' = "cmp_done"
    /\ UNCHANGED <<depth, papers, edges, visited, current_level, current_depth,
                   tasks, results, graph, failure, taskLog>>
    /\ UNCHANGED <<inputVars, upVars, histVars, op, requests, call, method,
                   top_k, similarities, paper_ids, cmp_i, simBack, clusterVars,
                   gapResult>>

NextService ==
    \/ (op = "find_similar_papers" /\ BuildStart)
    \/ LevelStart
    \/ \E i \in 1..Len(tasks) : TaskComplete(i)
    \/ LevelEnd
    \/ FindSimilarFinish
    \/ CompareStart
    \/ CompareFetch
    \/ CompareFinish

SpecService == InitService /\ [][NextService]_vars

----------------------------------------------------------------------------
(* Properties of GraphBuilder.build *)

Returned == pc = "done"

EdgeIds(e) == {e[i][1] : i \in 1..Len(e)} \cup {e[i][2] : i \in 1..Len(e)}

(* What a fetch task hands to the result loop, recomputed from the upstream *)
TaskResult(t) ==
    IF t.kind = "citation"
    THEN _fetch_citations(t.paper_id, upPaper[t.paper_id],
                          upList[<<"citation", t.paper_id>>])
    ELSE _fetch_references(t.paper_id, upPaper[t.paper_id],
                           upList[<<"reference", t.paper_id>>])

TaskRels(t) == Slice(TaskResult(t).relationships, max_papers_per_level)

RelEdge(rel) == <<rel.citing_paper.paper_id, rel.cited_paper.paper_id>>

RelOther(t, rel) ==
    IF t.kind = "citation" THEN rel.citing_paper.paper_id
                           ELSE rel.cited_paper.paper_id

(* C1: in a returned graph every id that is an end of an edge is a key of *)
(* papers.                                                                *)
C1_EdgeEndsArePapers ==
    Returned => EdgeIds(graph.edges) \subseteq Keys(graph.papers)

(* C2: a returned graph holds no ordered pair (citing_id, cited_id) twice. *)
C2_NoDuplicateEdges ==
    Returned =>
        \A i, j \in 1..Len(graph.edges) :
            i # j => graph.edges[i] # graph.edges[j]

(* the arc y -> x was listed by the citations task of x and by the         *)
(* references task of y, and both lists were merged                        *)
C2_Witness ==
    /\ Returned
    /\ \E x, y \in Ids \ {""} :
          /\ {x, y} \subseteq visited
          /\ direction = "both"
          /\ upList[<<"citation", x>>].items = {y}
          /\ upList[<<"reference", y>>].items = {x}
          /\ <<y, x>> \in SeqToSet(graph.edges)

(* C3: the root id is a key of papers of a returned graph; when the        *)
(* upstream does not know the root, its entry is the placeholder with the  *)
(* root id and the title "Unknown".                                        *)
C3_RootIsPaper ==
    Returned =>
        /\ graph.root_paper_id = root_paper_id
        /\ root_paper_id \in Keys(graph.papers)
        /\ upPaper[root_paper_id].st = "404" =>
              Get(graph.papers, root_paper_id)
                  = [paper_id |-> root_paper_id, title |-> "Unknown"]

C3_Witness ==
    /\ Returned
    /\ upPaper[root_paper_id].st = "404"
    /\ Len(graph.edges) > 0

(* C4: two builds with the same arguments against the same upstream return *)
(* the same set of papers keys and the same set of edges, whatever the     *)
(* iteration order of the frontier and the completion order of the tasks.  *)
C4_SameSetsOnRebuild ==
    (Returned /\ builds > 1) =>
        /\ Keys(graph.papers) = Keys(prevGraph.papers)
        /\ SeqToSet(graph.edges) = SeqToSet(prevGraph.edges)

(* the second build enqueued its tasks in another order, and a task of     *)
(* that level contributed an edge                                          *)
C4_Witness ==
    /\ Returned
    /\ builds > 1
    /\ Len(taskLog) >= 2
    /\ Len(prevTaskLog) >= 2
    /\ taskLog[2] # prevTaskLog[2]
    /\ \E i \in 1..Len(taskLog[2]) : TaskRels(taskLog[2][i]) # <<>>

(* C5: build returns a graph although fetch tasks raised, and the graph    *)
(* holds every paper and edge of every task that did not raise.            *)
C5_RaisedTasksAreSkipped ==
    Returned =>
        /\ failure = "none"
        /\ graph # NoGraph
        /\ \A l \in 1..Len(taskLog) : \A i \in 1..Len(taskLog[l]) :
              LET t == taskLog[l][i]
              IN TaskResult(t).status = "ok" =>
                    \A k \in 1..Len(TaskRels(t)) :
                        /\ RelOther(t, TaskRels(t)[k]) \in Keys(graph.papers)
                        /\ RelEdge(TaskRels(t)[k]) \in SeqToSet(graph.edges)

(* a task of a level raised and a later task of the same level brought an  *)
(* edge                                                                    *)
C5_Witness ==
    /\ Returned
    /\ \E l \in 1..Len(taskLog) : \E i, j \in 1..Len(taskLog[l]) :
          /\ i < j
          /\ TaskResult(taskLog[l][i]).status = "raised"
          /\ TaskResult(taskLog[l][j]).status = "ok"
          /\ TaskRels(taskLog[l][j]) # <<>>

(* C8: a build with an unknown direction fails with InvalidArgument and    *)
(* returns no graph.                                                       *)
C8_UnknownDirectionFails ==
    (Returned /\ direction \notin Directions) =>
        /\ failure = "InvalidArgument"
        /\ graph = NoGraph

(* C6: no request carries a limit above 100; the limit sent is            *)
(* min(supplied, 100) for every caller.                                    *)
C6_LimitIsClamped ==
    call.sent_limit # NoLimit =>
        /\ call.sent_limit <= S2MaxLimit
        /\ call.sent_limit = Min(call.limit, S2MaxLimit)

(* C7: whatever the outcome of its requests, a client method raises        *)
(* nothing; get_paper returns None and get_citations / get_references      *)
(* return an empty list when their request failed.                         *)
C7_FailuresAreAbsorbed ==
    /\ call.name = "get_paper" =>
          /\ call.raised = "none"
          /\ call.paper.st \in FailedOutcomes => call.value = <<>>
    /\ call.name \in {"get_citations", "get_references"} =>
          /\ call.raised = "none"
          /\ call.list.st \in FailedOutcomes => call.value = <<>>

C7_Witness ==
    /\ call.name = "get_references"
    /\ call.paper.st = "200"
    /\ call.list.st = "timeout"
    /\ call.raised = "none"
    /\ call.value = <<>>

(* C9: find_similar_papers with an unknown method name fails with         *)
(* InvalidArgument and returns no similarities.                            *)
C9_UnknownMethodFails ==
    (op = "find_similar_papers" /\ pc = "returned" /\ method \notin Methods) =>
        /\ failure = "ValueError"
        /\ similarities = <<>>

(* C10: compare_papers with fewer than 2 ids raises InvalidArgument (the   *)
(* code's ValueError) before any request is sent and returns nothing.      *)
C10_CompareNeedsTwo ==
    (op = "compare_papers" /\ Len(paper_ids) < 2) =>
        /\ requests = 0
        /\ graph = NoGraph
        /\ papers = <<>>
        /\ pc \in {"start", "failed"}
        /\ pc = "failed" => failure = "ValueError"

C10_Witness ==
    /\ op = "compare_papers"
    /\ Len(paper_ids) = 1
    /\ pc = "failed"
    /\ failure = "ValueError"
    /\ requests = 0

----------------------------------------------------------------------------
(* Properties of CitationService._build_graph_from_papers *)

CompareGraphBuilt == op = "compare_papers" /\ pc = "cmp_built"

(* C11: the graph compare_papers builds from the input ids holds no        *)
(* ordered pair (citing_id, cited_id) twice, also when one input paper     *)
(* cites another input paper.                                              *)
C11_CompareGraphNoDuplicateEdges ==
    CompareGraphBuilt =>
        \A i, j \in 1..Len(graph.edges) :
            i # j => graph.edges[i] # graph.edges[j]

(* C12: the first input id is a key of papers of the graph                 *)
(* _build_graph_from_papers returns, also when the upstream does not know  *)
(* that id.                                                                *)
C12_CompareRootIsPaper ==
    CompareGraphBuilt =>
        /\ graph.root_paper_id = paper_ids[1]
        /\ graph.root_paper_id \in Keys(graph.papers)

----------------------------------------------------------------------------
(* Graphs handed to the analyzers of core/analysis.py *)

MaxAnaNodes == 3     \* paper ids of the graphs handed to the analyzers
MaxAnaEdges == 4     \* edges of the graphs handed to the analyzers

NodeNames == <<"A", "B", "X", "Y", "Z", "W", "V">>

AnaNodesSeq == SubSeq(NodeNames, 1, MaxAnaNodes)
AnaNodes    == SeqToSet(AnaNodesSeq)

(* papers: the dict of the first n ids, each with a parsed record *)
PapersOf(ids) == [i \in 1..Len(ids) |->
                     [key |-> ids[i], val |-> PaperInfo(ids[i], "T")]]

(* every ordered pair of ids, self-citations included, in a fixed order *)
AnaPairsSeq ==
    [k \in 1..(MaxAnaNodes * MaxAnaNodes) |->
        <<AnaNodesSeq[((k - 1) \div MaxAnaNodes) + 1],
          AnaNodesSeq[((k - 1) % MaxAnaNodes) + 1]>>]

EdgesOf(S) == SelectSeq(AnaPairsSeq, LAMBDA e : e \in S)

(* spec example: A cites X, Y and B cites X, Y, Z *)
CouplingExample ==
    CitationGraph("A",
                  PapersOf(<<"A", "B", "X", "Y", "Z">>),
                  << <<"A", "X">>, <<"A", "Y">>, <<"B", "X">>, <<"B", "Y">>,
                     <<"B", "Z">> >>,
                  1, "references")

AnaGraphs ==
    {CitationGraph(AnaNodesSeq[1], PapersOf(SubSeq(AnaNodesSeq, 1, n)),
                   EdgesOf(S), 1, "both") :
        n \in 0..MaxAnaNodes,
        S \in {T \in SUBSET SeqToSet(AnaPairsSeq) : Cardinality(T) <= MaxAnaEdges}}
    \cup {CouplingExample}

PaperIdsOf(g) == [i \in 1..Len(g.papers) |-> g.papers[i].key]

----------------------------------------------------------------------------
(* SimilarityAnalyzer.compute_similarity on a given graph *)

(* an analyzer is constructed on a graph it is handed: nothing is built,   *)
(* nothing is requested                                                    *)
AnalyzerFrame ==
    /\ depthArg = 1
    /\ direction = "both"
    /\ max_papers_per_level = DefaultPerLevel
    /\ upPaper = [id \in Ids |-> Unasked]
    /\ upList = [r \in ListKinds \X Ids |-> UnaskedList]
    /\ pc = "start"
    /\ depth = 0
    /\ papers = <<>>
    /\ edges = <<>>
    /\ visited = {}
    /\ current_level = {}
    /\ current_depth = 0
    /\ tasks = <<>>
    /\ results = <<>>
    /\ failure = "none"
    /\ taskLog = <<>>
    /\ builds = 1
    /\ prevGraph = NoGraph
    /\ prevTaskLog = <<>>
    /\ requests = 0
    /\ call = NoCall
    /\ cmp_i = 0

InitSimilarity ==
    /\ op = "compute_similarity"
    /\ graph \in AnaGraphs
    /\ root_paper_id \in AnaNodes
    /\ method \in Methods
    /\ top_k \in 0..MaxTopK
    /\ AnalyzerFrame
    /\ paper_ids = <<>>
    /\ similarities = <<>>
    /\ IdleAnalysis

(* compute_similarity(paper_id, method, top_k) *)
ComputeSimilarity ==
    /\ op = "compute_similarity"
    /\ pc = "start"
    /\ similarities' = compute_similarity(graph, root_paper_id, method, top_k)
    /\ pc' = "sim_done"
    /\ UNCHANGED <<depth, papers, edges, visited, current_level, current_depth,
                   tasks, results, graph, failure, taskLog>>
    /\ UNCHANGED <<inputVars, upVars, histVars, op, requests, call, method,
                   top_k, paper_ids, cmp_i, anaVars>>

(* the same analyzer is asked again, with every other paper of the graph   *)
(* as the source and no truncation                                         *)
ComputeSimilarityBack ==
    /\ op = "compute_similarity"
    /\ pc = "sim_done"
    /\ simBack' =
           LET others == SelectSeq(PaperIdsOf(graph),
                                   LAMBDA o : o # root_paper_id)
           IN [i \in 1..Len(others) |->
                  [source |-> others[i],
                   result |-> compute_similarity(graph, others[i], method,
                                                 Len(graph.papers))]]
    /\ pc' = "sim_back"
    /\ UNCHANGED <<depth, papers, edges, visited, current_level, current_depth,
                   tasks, results, graph, failure, taskLog>>
    /\ UNCHANGED <<inputVars, upVars, histVars, op, requests, call, method,
                   top_k, similarities, paper_ids, cmp_i, clusterVars,
                   resultVars>>

NextSimilarity ==
    \/ ComputeSimilarity
    \/ ComputeSimilarityBack

SpecSimilarity == InitSimilarity /\ [][NextSimilarity]_vars

----------------------------------------------------------------------------
(* core/analysis.py: ClusterAnalyzer *)

MaxIterations == 3   \* largest max_iterations tried

MinClusterArgs == {1, 2, 3}

(* _build_adjacency: the citation direction is dropped *)
Neighbors(g, p) == Cites(g, p) \cup CitedBy(g, p)

(* the distinct items of a sequence, in the order of their first occurrence *)
RECURSIVE FirstSeen(_)
FirstSeen(items) ==
    IF items = <<>> THEN <<>>
    ELSE LET init == FirstSeen(SubSeq(items, 1, Len(items) - 1))
             x    == items[Len(items)]
         IN IF x \in SeqToSet(init) THEN init ELSE Append(init, x)

(* stable sort of keys by descending count *)
RECURSIVE SortByCount(_, _)
SortByCount(keys, items) ==
    IF keys = <<>> THEN <<>>
    ELSE LET rest == SortByCount(Tail(keys), items)
             x    == Head(keys)
             k    == Cardinality({i \in 1..Len(rest) :
                                     CountOf(items, rest[i]) > CountOf(items, x)})
         IN SubSeq(rest, 1, k) \o <<x>> \o SubSeq(rest, k + 1, Len(rest))

(* Counter(items).most_common(): by count, ties in order of first occurrence *)
MostCommon(items) == SortByCount(FirstSeen(items), items)

(* lines 241-255: the loop over paper_ids of one pass, from index i on *)
RECURSIVE PassFrom(_, _, _, _, _)
PassFrom(g, order, ids, i, st) ==
    IF i > Len(ids) THEN st
    ELSE LET pid       == ids[i]
             neighbors == Neighbors(g, pid)
             seen      == SelectSeq(SetIter(neighbors, order),
                                    LAMBDA n : n \in DOMAIN st.labels)
             counted   == [k \in 1..Len(seen) |-> st.labels[seen[k]]]
         IN IF neighbors = {} \/ counted = <<>>
            THEN PassFrom(g, order, ids, i + 1, st)
            ELSE LET new_label == MostCommon(counted)[1]
                 IN IF st.labels[pid] # new_label
                    THEN PassFrom(g, order, ids, i + 1,
                                  [labels  |-> [st.labels EXCEPT ![pid] = new_label],
                                   changed |-> TRUE])
                    ELSE PassFrom(g, order, ids, i + 1, st)

(* one pass of label propagation: changed starts False *)
Pass(g, order, lab) ==
    PassFrom(g, order, PaperIdsOf(g), 1, [labels |-> lab, changed |-> FALSE])

(* mutant: one pass more than max_iterations *)
LoopContinuesOneMore(it, maxIt, chg) ==
    it <= maxIt /\ (it = 0 \/ chg)

(* for iteration in range(max_iterations) ... if not changed: break *)
LoopContinues(it, maxIt, chg) ==
    it < maxIt /\ (it = 0 \/ chg)

(* lines 261-263: label_to_papers, in the order the labels first occur *)
LabelGroups(g, lab) ==
    LET ids    == PaperIdsOf(g)
        labSeq == [i \in 1..Len(ids) |-> lab[ids[i]]]
        keys   == FirstSeen(labSeq)
    IN [k \in 1..Len(keys) |->
           SelectSeq(ids, LAMBDA p : lab[p] = keys[k])]

InternalDegree(g, pid, members) ==
    Cardinality(Neighbors(g, pid) \cap SeqToSet(members))

(* max(internal_degrees, key=internal_degrees.get): the first of the best *)
CentralPaper(g, members) ==
    members[CHOOSE i \in 1..Len(members) :
                /\ \A j \in 1..Len(members) :
                      InternalDegree(g, members[j], members)
                          <= InternalDegree(g, members[i], members)
                /\ \A j \in 1..(i - 1) :
                      InternalDegree(g, members[j], members)
                          < InternalDegree(g, members[i], members)]

RECURSIVE SumDegrees(_, _, _)
SumDegrees(g, members, i) ==
    IF i > Len(members) THEN 0
    ELSE InternalDegree(g, members[i], members) + SumDegrees(g, members, i + 1)

(* cohesion = (sum of degrees / 2) / (n (n - 1) / 2), at most 1.0 *)
Cohesion(g, members) ==
    LET n == Len(members)
        internal2 == SumDegrees(g, members, 1)
        max2      == n * (n - 1)
    IN IF max2 > 0
       THEN (IF internal2 > max2 THEN Frac(1, 1) ELSE Frac(internal2, max2))
       ELSE Frac(0, 1)

(* analysis.py:320-346: stop_words of _extract_key_terms *)
KeyTermStopWords ==
    {"a", "an", "the", "of", "in", "for", "on", "with", "to", "and", "is",
     "are", "by", "from", "using", "via", "based", "towards", "its", "as",
     "at", "be", "or", "this", "that"}

(* re.findall(r"\b[a-zA-Z]{3,}\b", title.lower()) without the stop words *)
TitleWords(title) ==
    SelectSeq(FindWords(title), LAMBDA w : w \notin KeyTermStopWords)

RECURSIVE WordsOf(_)
WordsOf(ps) ==
    IF ps = <<>> THEN <<>> ELSE TitleWords(Head(ps).title) \o WordsOf(Tail(ps))

(* service.py / analysis.py:317: top_k of _extract_key_terms *)
KeyTermsTopK == 10

_extract_key_terms(ps) == Slice(MostCommon(WordsOf(ps)), KeyTermsTopK)

(* models.py:44: year is None unless the record carries one *)
NoYear == 0

YearOf(p) == IF "year" \in DOMAIN p THEN p.year ELSE NoYear

(* years = [p.year for p in papers if p.year]; (min, max) or (None, None) *)
YearRange(ps) ==
    LET years == {YearOf(ps[i]) : i \in 1..Len(ps)} \ {NoYear}
    IN IF years = {} THEN <<NoYear, NoYear>>
       ELSE <<CHOOSE y \in years : \A z \in years : y <= z,
              CHOOSE y \in years : \A z \in years : y >= z>>

PaperCluster(g, members, index) ==
    LET ps == [i \in 1..Len(members) |-> Get(g.papers, members[i])]
    IN [cluster_id |-> <<"cluster", index>>,
        papers |-> ps,
        central_paper_id |-> CentralPaper(g, members),
        cohesion_score |-> Cohesion(g, members),
        key_terms |-> _extract_key_terms(ps),
        year_range |-> YearRange(ps)]

(* mutant: the papers of a small group are dropped *)
ExtendUnclusteredDropped(unclustered, g, members) == unclustered

(* unclustered.extend(self.graph.papers[pid] for pid in paper_ids_in_cluster) *)
ExtendUnclustered(unclustered, g, members) ==
    unclustered \o [i \in 1..Len(members) |-> Get(g.papers, members[i])]

(* lines 269-308: the loop over label_to_papers *)
RECURSIVE BuildClusters(_, _, _, _)
BuildClusters(g, groups, minSize, acc) ==
    IF groups = <<>> THEN acc
    ELSE LET members == Head(groups)
         IN IF Len(members) < minSize
            THEN BuildClusters(g, Tail(groups), minSize,
                     [acc EXCEPT !.unclustered =
                          ExtendUnclustered(acc.unclustered, g, members)])
            ELSE BuildClusters(g, Tail(groups), minSize,
                     [acc EXCEPT !.clusters =
                          Append(acc.clusters,
                                 PaperCluster(g, members, Len(acc.clusters)))])

(* sorted(clusters, key=lambda c: len(c.papers), reverse=True) *)
RECURSIVE SortBySize(_)
SortBySize(cs) ==
    IF cs = <<>> THEN <<>>
    ELSE LET rest == SortBySize(Tail(cs))
             x    == Head(cs)
             k    == Cardinality({i \in 1..Len(rest) :
                                     Len(rest[i].papers) > Len(x.papers)})
         IN SubSeq(rest, 1, k) \o <<x>> \o SubSeq(rest, k + 1, Len(rest))

ClusteringResult(cs, unclustered, total) ==
    [clusters |-> cs, unclustered_papers |-> unclustered,
     total_papers |-> total, method |-> "label_propagation"]

(* lines 238-258: the passes left from iteration it on *)
RECURSIVE Propagate(_, _, _, _, _, _)
Propagate(g, order, lab, it, maxIt, chg) ==
    IF ~LoopContinues(it, maxIt, chg) THEN lab
    ELSE LET st == Pass(g, order, lab)
         IN Propagate(g, order, st.labels, it + 1, maxIt, st.changed)

(* ClusterAnalyzer(g).cluster_papers(minSize, maxIt) in a process that     *)
(* iterates its sets in the given order                                    *)
cluster_papers(g, minSize, maxIt, order) ==
    IF Len(g.papers) < minSize
    THEN ClusteringResult(<<>>, [i \in 1..Len(g.papers) |-> g.papers[i].val],
                          Len(g.papers))
    ELSE LET lab == Propagate(g, order,
                        [p \in Keys(g.papers) |-> Lookup(g.papers, p) - 1],
                        0, maxIt, FALSE)
             acc == BuildClusters(g, LabelGroups(g, lab), minSize,
                                  [clusters |-> <<>>, unclustered |-> <<>>])
         IN ClusteringResult(SortBySize(acc.clusters), acc.unclustered,
                             Len(g.papers))

(* Graphs handed to the ClusterAnalyzer: every set of undirected links and *)
(* self-citations over the ids, and the graphs label propagation is known  *)
(* to be hard on                                                           *)
ClusterPairs ==
    {AnaPairsSeq[k] : k \in {j \in 1..Len(AnaPairsSeq) :
                                ((j - 1) \div MaxAnaNodes) <= ((j - 1) % MaxAnaNodes)}}

CycleExample ==
    CitationGraph("A", PapersOf(<<"A", "B", "X", "Y">>),
                  << <<"A", "B">>, <<"B", "X">>, <<"X", "Y">>, <<"Y", "A">> >>,
                  1, "both")

BipartiteExample ==
    CitationGraph("A", PapersOf(<<"A", "B", "X", "Y", "Z">>),
                  << <<"A", "X">>, <<"A", "Y">>, <<"A", "Z">>,
                     <<"B", "X">>, <<"B", "Y">>, <<"B", "Z">> >>,
                  1, "both")

CompleteExample ==
    CitationGraph("A", PapersOf(<<"A", "B", "X", "Y">>),
                  << <<"A", "B">>, <<"A", "X">>, <<"A", "Y">>,
                     <<"B", "X">>, <<"B", "Y">>, <<"X", "Y">> >>,
                  1, "both")

(* the path B - X - A - Y *)
PathExample ==
    CitationGraph("A", PapersOf(<<"A", "B", "X", "Y">>),
                  << <<"A", "X">>, <<"A", "Y">>, <<"B", "X">> >>,
                  1, "both")

(* B cites A and was stored first, as in a build from the root B *)
RootLastExample ==
    CitationGraph("B", PapersOf(<<"B", "A">>), << <<"B", "A">> >>, 1, "both")

ClusterGraphs ==
    {CitationGraph(AnaNodesSeq[1], PapersOf(SubSeq(AnaNodesSeq, 1, n)),
                   EdgesOf(S), 1, "both") :
        n \in {0, MaxAnaNodes - 1, MaxAnaNodes},
        S \in {T \in SUBSET ClusterPairs : Cardinality(T) <= MaxAnaEdges}}
    \cup {CycleExample, BipartiteExample, CompleteExample, PathExample,
          RootLastExample}

InitCluster ==
    /\ op = "cluster_papers"
    /\ graph \in ClusterGraphs
    /\ root_paper_id = graph.root_paper_id
    /\ min_cluster_size \in MinClusterArgs
    /\ max_iterations \in 0..MaxIterations
    /\ hashOrder \in Perms(Keys(graph.papers) \cup EdgeIds(graph.edges))
    /\ AnalyzerFrame
    /\ paper_ids = <<>>
    /\ method = NoId
    /\ top_k = 0
    /\ similarities = <<>>
    /\ simBack = <<>>
    /\ labels = <<>>
    /\ iteration = 0
    /\ changed = FALSE
    /\ clustering = NoClustering
    /\ IdleResults

ClusterFrame ==
    /\ UNCHANGED <<depth, papers, edges, visited, current_level, current_depth,
                   tasks, results, graph, failure, taskLog>>
    /\ UNCHANGED <<inputVars, upVars, histVars, op, requests, call, method,
                   top_k, similarities, paper_ids, cmp_i, simBack,
                   min_cluster_size, max_iterations, hashOrder, resultVars>>

(* lines 223-235: too few papers return at once; else every paper gets its *)
(* own label                                                               *)
ClusterStart ==
    /\ op = "cluster_papers"
    /\ pc = "start"
    /\ IF Len(graph.papers) < min_cluster_size
       THEN /\ clustering' =
                   ClusteringResult(<<>>,
                       [i \in 1..Len(graph.papers) |-> graph.papers[i].val],
                       Len(graph.papers))
            /\ labels' = labels
            /\ pc' = "clustered_early"
       ELSE /\ labels' = [p \in Keys(graph.papers) |->
                             Lookup(graph.papers, p) - 1]
            /\ clustering' = clustering
            /\ pc' = "propagate"
    /\ UNCHANGED <<iteration, changed>>
    /\ ClusterFrame

(* lines 238-258: one pass of the label propagation loop *)
ClusterPass ==
    /\ op = "cluster_papers"
    /\ pc = "propagate"
    /\ LoopContinues(iteration, max_iterations, changed)
    /\ LET st == Pass(graph, hashOrder, labels)
       IN /\ labels' = st.labels
          /\ changed' = st.changed
    /\ iteration' = iteration + 1
    /\ UNCHANGED <<pc, clustering>>
    /\ ClusterFrame

(* lines 260-315: the loop has ended; group by label and build the result *)
ClusterFinish ==
    /\ op = "cluster_papers"
    /\ pc = "propagate"
    /\ ~LoopContinues(iteration, max_iterations, changed)
    /\ LET acc == BuildClusters(graph, LabelGroups(graph, labels),
                                min_cluster_size,
                                [clusters |-> <<>>, unclustered |-> <<>>])
       IN clustering' = ClusteringResult(SortBySize(acc.clusters),
                                         acc.unclustered, Len(graph.papers))
    /\ pc' = "clustered"
    /\ UNCHANGED <<labels, iteration, changed>>
    /\ ClusterFrame

NextCluster ==
    \/ ClusterStart
    \/ ClusterPass
    \/ ClusterFinish

SpecCluster == InitCluster /\ [][NextCluster]_vars

----------------------------------------------------------------------------
(* core/analysis.py: GapAnalyzer *)

MaxGapClusters == 3  \* clusters of the ClusteringResult handed to the GapAnalyzer
MaxGapEdges    == 2  \* edges of the graph handed to the GapAnalyzer

NoCluster == <<"none", -1>>

(* paper_to_cluster: a later cluster overwrites an earlier one *)
ClusterOf(cs, pid) ==
    LET holders == {k \in 1..Len(cs) :
                       \E i \in 1..Len(cs[k].papers) :
                           cs[k].papers[i].paper_id = pid}
    IN IF holders = {} THEN NoCluster
       ELSE cs[CHOOSE k \in holders : \A l \in holders : l <= k].cluster_id

(* tuple(sorted([cluster_a, cluster_b])) *)
SortedKey(a, b) == IF a[2] <= b[2] THEN <<a, b>> ELSE <<b, a>>

(* cross_cluster_citations.get(key, 0) *)
CrossCitations(g, cs, key) ==
    Cardinality({i \in 1..Len(g.edges) :
        LET cluster_a == ClusterOf(cs, g.edges[i][1])
            cluster_b == ClusterOf(cs, g.edges[i][2])
        IN /\ cluster_a # NoCluster
           /\ cluster_b # NoCluster
           /\ cluster_a # cluster_b
           /\ SortedKey(cluster_a, cluster_b) = key})

FracMin(a, b) == IF FracGt(a, b) THEN b ELSE a

(* mutant: the ratio is not scaled by 10 *)
BridgingConfidenceUnscaled(cross_citations, max_possible) ==
    FracMin(Frac(9, 10), Frac(max_possible - cross_citations, max_possible))

(* confidence = min(0.9, 1 - connection_ratio * 10) *)
BridgingConfidence(cross_citations, max_possible) ==
    FracMin(Frac(9, 10),
            Frac(max_possible - 10 * cross_citations, max_possible))

(* connection_ratio < 0.05, with connection_ratio 0 when max_possible is 0 *)
WeaklyConnected(cross_citations, max_possible) ==
    IF max_possible > 0 THEN 20 * cross_citations < max_possible ELSE TRUE

(* the pairs (i, j), i < j, in the order of the two loops *)
PairsInOrder(n) ==
    SelectSeq([k \in 1..(n * n) |-> <<((k - 1) \div n) + 1, ((k - 1) % n) + 1>>],
              LAMBDA q : q[1] < q[2])

ResearchGap(id, type, evidence, related, confidence) ==
    [gap_id |-> id, gap_type |-> type, evidence_papers |-> evidence,
     related_clusters |-> related, confidence |-> confidence]

_find_bridging_gaps(g, cs) ==
    LET isGap(q) ==
            LET cluster_a == cs[q[1]]
                cluster_b == cs[q[2]]
            IN /\ Len(cluster_a.papers) >= 3
               /\ Len(cluster_b.papers) >= 3
               /\ WeaklyConnected(
                      CrossCitations(g, cs, SortedKey(cluster_a.cluster_id,
                                                      cluster_b.cluster_id)),
                      Len(cluster_a.papers) * Len(cluster_b.papers))
        found == SelectSeq(PairsInOrder(Len(cs)), isGap)
    IN [k \in 1..Len(found) |->
           LET cluster_a == cs[found[k][1]]
               cluster_b == cs[found[k][2]]
           IN ResearchGap(
                  <<"bridge", cluster_a.cluster_id, cluster_b.cluster_id>>,
                  "bridging",
                  <<cluster_a.central_paper_id, cluster_b.central_paper_id>>,
                  <<cluster_a.cluster_id, cluster_b.cluster_id>>,
                  BridgingConfidence(
                      CrossCitations(g, cs, SortedKey(cluster_a.cluster_id,
                                                      cluster_b.cluster_id)),
                      Len(cluster_a.papers) * Len(cluster_b.papers)))]

(* lines 466-485: fewer papers in the last two years than half of those of *)
(* the first two                                                           *)
Declining(cluster) ==
    LET years == {YearOf(cluster.papers[i]) : i \in 1..Len(cluster.papers)}
                     \ {NoYear}
        rank(y) == Cardinality({z \in years : z <= y})
        early_years  == {y \in years : rank(y) <= 2}
        recent_years == {y \in years : rank(y) > Cardinality(years) - 2}
        count(Y) == Cardinality({i \in 1..Len(cluster.papers) :
                                    YearOf(cluster.papers[i]) \in Y})
    IN /\ cluster.year_range[2] # NoYear
       /\ Cardinality(years) >= 3
       /\ count(early_years) > 0
       /\ 2 * count(recent_years) < count(early_years)

_find_temporal_gaps(cs) ==
    LET found == SelectSeq(cs, Declining)
    IN [k \in 1..Len(found) |->
           ResearchGap(<<"temporal", found[k].cluster_id>>, "temporal",
                       [i \in 1..Min(3, Len(found[k].papers)) |->
                           found[k].papers[i].paper_id],
                       <<found[k].cluster_id>>,
                       Frac(3, 5))]

method_indicators ==
    {"algorithm", "model", "method", "approach", "network", "learning"}

IsMethodCluster(cluster) ==
    SeqToSet(cluster.key_terms) \cap method_indicators # {}

(* analysis.py:556: return gaps[:10] *)
MethodGapLimit == 10

_find_methodological_gaps(g, cs) ==
    LET method_clusters == SelectSeq(cs, IsMethodCluster)
        domain_clusters == SelectSeq(cs, LAMBDA c : ~IsMethodCluster(c))
        nd    == Len(domain_clusters)
        pairs == [k \in 1..(Len(method_clusters) * nd) |->
                     <<method_clusters[((k - 1) \div nd) + 1],
                       domain_clusters[((k - 1) % nd) + 1]>>]
        found == SelectSeq(pairs, LAMBDA q :
                     CrossCitations(g, cs, SortedKey(q[1].cluster_id,
                                                     q[2].cluster_id)) < 2)
    IN Slice([k \in 1..Len(found) |->
                 ResearchGap(
                     <<"method", found[k][1].cluster_id, found[k][2].cluster_id>>,
                     "methodological",
                     <<found[k][1].central_paper_id, found[k][2].central_paper_id>>,
                     <<found[k][1].cluster_id, found[k][2].cluster_id>>,
                     Frac(1, 2))],
             MethodGapLimit)

find_gaps(g, cr) ==
    [gaps |-> _find_bridging_gaps(g, cr.clusters)
                  \o _find_temporal_gaps(cr.clusters)
                  \o _find_methodological_gaps(g, cr.clusters),
     analyzed_paper_count |-> Len(g.papers),
     analysis_depth |-> g.depth]

(* Inputs of the GapAnalyzer: a graph and the ClusteringResult that        *)
(* cluster_papers returns for it.  A cluster is given by its size and by   *)
(* the titles and years of its papers.                                     *)
GapShapes ==
    {[size |-> 6, kind |-> "declining"],
     [size |-> 5, kind |-> "plain"],
     [size |-> 5, kind |-> "method"],
     [size |-> 3, kind |-> "plain"],
     [size |-> 2, kind |-> "plain"]}

(* clusters come sorted by size, largest first *)
GapShapeLists ==
    UNION {{sh \in [1..n -> GapShapes] :
               \A i \in 1..(n - 1) : sh[i].size >= sh[i + 1].size} :
           n \in 0..MaxGapClusters}

GapPaper(sh, k, i) ==
    [paper_id |-> <<k, i>>,
     title |-> IF sh.kind = "method" THEN "Model"
               ELSE IF sh.kind = "declining" THEN "Graph" ELSE "T",
     year |-> IF sh.kind = "method" THEN 2000 + i
              ELSE IF sh.kind = "declining"
                   THEN (IF i <= sh.size - 2 THEN 2000
                         ELSE IF i = sh.size - 1 THEN 2001 ELSE 2002)
                   ELSE NoYear]

RECURSIVE GapPapers(_, _)
GapPapers(shapes, k) ==
    IF k > Len(shapes) THEN <<>>
    ELSE [i \in 1..shapes[k].size |->
             [key |-> <<k, i>>, val |-> GapPaper(shapes[k], k, i)]]
         \o GapPapers(shapes, k + 1)

(* a paper that belongs to no cluster *)
Unclustered == [paper_id |-> <<0, 1>>, title |-> "T", year |-> NoYear]

(* the ends of the edges tried: the first paper of each cluster and the    *)
(* unclustered paper                                                       *)
GapEdgeSets(n) ==
    LET reps == {<<k, 1>> : k \in 0..n}
    IN {S \in SUBSET {e \in reps \X reps : e[1] # e[2]} :
           Cardinality(S) <= MaxGapEdges}

GapEdgesSeq(n, S) ==
    SelectSeq([k \in 1..((n + 1) * (n + 1)) |->
                  << <<(k - 1) \div (n + 1), 1>>, <<(k - 1) % (n + 1), 1>> >>],
              LAMBDA e : e \in S)

GapGraph(shapes, S) ==
    CitationGraph(<<0, 1>>,
                  <<[key |-> <<0, 1>>, val |-> Unclustered]>>
                      \o GapPapers(shapes, 1),
                  GapEdgesSeq(Len(shapes), S), 2, "both")

(* cluster_id carries the index at creation; the list is sorted afterwards, *)
(* so equal sizes keep rising indexes                                       *)
GapIndexings(shapes) ==
    {ix \in {[k \in 1..Len(shapes) |-> k - 1],
             [k \in 1..Len(shapes) |-> Len(shapes) - k]} :
        \A i, j \in 1..Len(shapes) :
            (i < j /\ shapes[i].size = shapes[j].size) => ix[i] < ix[j]}

GapClustering(g, shapes, ix) ==
    ClusteringResult(
        [k \in 1..Len(shapes) |->
            PaperCluster(g, [i \in 1..shapes[k].size |-> <<k, i>>], ix[k])],
        <<Unclustered>>, Len(g.papers))

InitGaps ==
    /\ op = "find_gaps"
    /\ \E shapes \in GapShapeLists :
          \E S \in GapEdgeSets(Len(shapes)), ix \in GapIndexings(shapes) :
             /\ graph = GapGraph(shapes, S)
             /\ clustering = GapClustering(GapGraph(shapes, S), shapes, ix)
    /\ root_paper_id = NoId
    /\ AnalyzerFrame
    /\ paper_ids = <<>>
    /\ method = NoId
    /\ top_k = 0
    /\ similarities = <<>>
    /\ simBack = <<>>
    /\ min_cluster_size = 0
    /\ max_iterations = 0
    /\ hashOrder = <<>>
    /\ labels = <<>>
    /\ iteration = 0
    /\ changed = FALSE
    /\ IdleResults

(* GapAnalyzer(graph, clusters).find_gaps() *)
FindGaps ==
    /\ op = "find_gaps"
    /\ pc = "start"
    /\ gapResult' = find_gaps(graph, clustering)
    /\ pc' = "gaps_done"
    /\ UNCHANGED <<depth, papers, edges, visited, current_level, current_depth,
                   tasks, results, graph, failure, taskLog>>
    /\ UNCHANGED <<inputVars, upVars, histVars, op, requests, call, method,
                   top_k, similarities, paper_ids, cmp_i, simBack, clusterVars,
                   comparison>>

NextGaps == FindGaps

SpecGaps == InitGaps /\ [][NextGaps]_vars

----------------------------------------------------------------------------
(* ComparisonAnalyzer.compare_papers over a given graph *)

(* spec example: P1 cites R1, R2, R3 and P2 cites R2, R3, R4 *)
ComparisonExample ==
    CitationGraph("P1",
                  PapersOf(<<"P1", "P2", "R1", "R2", "R3", "R4">>),
                  << <<"P1", "R1">>, <<"P1", "R2">>, <<"P1", "R3">>,
                     <<"P2", "R2">>, <<"P2", "R3">>, <<"P2", "R4">> >>,
                  1, "both")

(* titles of the papers compared by title *)
CompareTitles ==
    {"Learning from Data", "The Data of Graphs", "Data, Data", "Graph"}

(* two papers that differ by title only, no citation between them *)
TitledGraphs ==
    {CitationGraph("P1",
                   << [key |-> "P1", val |-> PaperInfo("P1", t1)],
                      [key |-> "P2", val |-> PaperInfo("P2", t2)] >>,
                   <<>>, 1, "both") : t1, t2 \in CompareTitles}

CompareGraphs == AnaGraphs \cup {ComparisonExample} \cup TitledGraphs

(* the lists of ids compared: every pair, one triple, the example's pair *)
ComparedIds ==
    {<<a, b>> : a, b \in AnaNodes}
        \cup {SubSeq(NodeNames, 1, 3)}
        \cup {<<"P1", "P2">>}

InitCompare ==
    /\ op = "ComparisonAnalyzer"
    /\ graph \in CompareGraphs
    /\ root_paper_id = graph.root_paper_id
    /\ paper_ids \in ComparedIds
    /\ hashOrder \in HashOrders
    /\ AnalyzerFrame
    /\ method = NoId
    /\ top_k = 0
    /\ similarities = <<>>
    /\ simBack = <<>>
    /\ min_cluster_size = 0
    /\ max_iterations = 0
    /\ labels = <<>>
    /\ iteration = 0
    /\ changed = FALSE
    /\ clustering = NoClustering
    /\ IdleResults

(* ComparisonAnalyzer(graph).compare_papers(paper_ids) *)
ComparePapers ==
    /\ op = "ComparisonAnalyzer"
    /\ pc = "start"
    /\ comparison' = AnalyzerComparePapers(graph, paper_ids, hashOrder)
    /\ pc' = "compared"
    /\ UNCHANGED <<depth, papers, edges, visited, current_level, current_depth,
                   tasks, results, graph, failure, taskLog>>
    /\ UNCHANGED <<inputVars, upVars, histVars, op, requests, call, method,
                   top_k, similarities, paper_ids, cmp_i, simBack, clusterVars,
                   gapResult>>

NextCompare == ComparePapers

SpecCompare == InitCompare /\ [][NextCompare]_vars

----------------------------------------------------------------------------
(* Properties of SimilarityAnalyzer *)

FracEq(a, b) == a.n * b.d = b.n * a.d

SimilarityReturned == op = "compute_similarity" /\ pc \in {"sim_done", "sim_back"}

(* C13: compute_similarity returns at most top_k items, each with a score  *)
(* above 0, in non-increasing order of score, and never the source paper.  *)
C13_TopKPositiveSorted ==
    SimilarityReturned =>
        /\ Len(similarities) <= top_k
        /\ \A i \in 1..Len(similarities) :
              /\ FracGt(similarities[i].similarity_score, Frac(0, 1))
              /\ similarities[i].paper_b.paper_id # root_paper_id
        /\ \A i, j \in 1..Len(similarities) :
              i < j => ~FracGt(similarities[j].similarity_score,
                               similarities[i].similarity_score)

(* two papers were returned, the better one stands later in papers *)
C13_Witness ==
    /\ SimilarityReturned
    /\ Len(similarities) = 2
    /\ FracGt(similarities[1].similarity_score, similarities[2].similarity_score)
    /\ Lookup(graph.papers, similarities[1].paper_b.paper_id)
           > Lookup(graph.papers, similarities[2].paper_b.paper_id)

(* the sets of the definition, read off the edge list *)
RefsOf(g, p)   == {e[2] : e \in {x \in SeqToSet(g.edges) : x[1] = p}}
CitersOf(g, p) == {e[1] : e \in {x \in SeqToSet(g.edges) : x[2] = p}}

InterOverUnion(X, Y, s) ==
    IF X \cup Y = {} THEN s.n = 0
    ELSE s.n * Cardinality(X \cup Y) = Cardinality(X \cap Y) * s.d

PairScore(a, b, m) == _compute_pair_similarity(graph, a, b, m).score

AllIdsOf(g) == Keys(g.papers) \cup EdgeIds(g.edges)

(* C14: bibliographic_coupling is |cites a /\ cites b| / |cites a \/ cites *)
(* b|, co_citation the same over cited_by (0 for an empty union),          *)
(* citation_overlap 0.4 of the first plus 0.6 of the second, every score   *)
(* lies in [0,1]; in the spec example the coupling of A and B is 2/3.      *)
C14_ScoresAreJaccard ==
    SimilarityReturned =>
        /\ \A a, b \in AllIdsOf(graph) :
              LET bc == PairScore(a, b, "bibliographic_coupling")
                  cc == PairScore(a, b, "co_citation")
                  co == PairScore(a, b, "citation_overlap")
              IN /\ InterOverUnion(RefsOf(graph, a), RefsOf(graph, b), bc)
                 /\ InterOverUnion(CitersOf(graph, a), CitersOf(graph, b), cc)
                 /\ co.n * 10 * bc.d * cc.d
                        = co.d * (4 * bc.n * cc.d + 6 * cc.n * bc.d)
                 /\ \A s \in {bc, cc, co} : s.d > 0 /\ 0 <= s.n /\ s.n <= s.d
        /\ \A i \in 1..Len(similarities) :
              FracEq(similarities[i].similarity_score,
                     PairScore(root_paper_id,
                               similarities[i].paper_b.paper_id, method))
        /\ (graph = CouplingExample /\ root_paper_id = "A" /\ top_k >= 1
               /\ method = "bibliographic_coupling") =>
              \E i \in 1..Len(similarities) :
                  /\ similarities[i].paper_b.paper_id = "B"
                  /\ FracEq(similarities[i].similarity_score, Frac(2, 3))

(* the spec example was computed *)
C14_Witness ==
    /\ SimilarityReturned
    /\ graph = CouplingExample
    /\ root_paper_id = "A"
    /\ method = "bibliographic_coupling"
    /\ Len(similarities) = 1
    /\ similarities[1].paper_b.paper_id = "B"
    /\ similarities[1].shared_citations = {"X", "Y"}

ScoreIn(result, id) ==
    IF \E i \in 1..Len(result) : result[i].paper_b.paper_id = id
    THEN result[CHOOSE i \in 1..Len(result) :
                    result[i].paper_b.paper_id = id].similarity_score
    ELSE Frac(0, 1)

(* C15: the score of b with a as the source equals the score of a with b   *)
(* as the source, for every method.                                        *)
C15_SimilarityIsSymmetric ==
    (op = "compute_similarity" /\ pc = "sim_back") =>
        \A k \in 1..Len(simBack) :
            LET b == simBack[k].source
            IN /\ \A i \in 1..Len(similarities) :
                     similarities[i].paper_b.paper_id = b =>
                        FracEq(similarities[i].similarity_score,
                               ScoreIn(simBack[k].result, root_paper_id))
               /\ (top_k >= Len(graph.papers)
                      /\ root_paper_id \in Keys(graph.papers)) =>
                     FracEq(ScoreIn(similarities, b),
                            ScoreIn(simBack[k].result, root_paper_id))

(* a and b cite different numbers of papers and share some *)
C15_Witness ==
    /\ op = "compute_similarity"
    /\ pc = "sim_back"
    /\ Len(similarities) >= 1
    /\ \E k \in 1..Len(simBack) :
          /\ simBack[k].source = similarities[1].paper_b.paper_id
          /\ Cardinality(Cites(graph, simBack[k].source))
                 # Cardinality(Cites(graph, root_paper_id))
          /\ FracGt(ScoreIn(simBack[k].result, root_paper_id), Frac(0, 1))
          /\ FracGt(Frac(1, 1), ScoreIn(simBack[k].result, root_paper_id))

----------------------------------------------------------------------------
(* Properties of ClusterAnalyzer.cluster_papers *)

Clustered == op = "cluster_papers" /\ pc \in {"clustered", "clustered_early"}

LoopIsOver ==
    iteration = max_iterations \/ (iteration >= 1 /\ ~changed)

(* C16: label propagation runs at most max_iterations passes and then      *)
(* stops; unless it stopped because the last allowed pass still changed a  *)
(* label, a further pass would change no label.                            *)
C16_PassesBoundedAndFixedPoint ==
    op = "cluster_papers" =>
        /\ iteration <= max_iterations
        /\ (pc = "clustered" /\ iteration >= 1
               /\ ~(iteration = max_iterations /\ changed)) =>
              /\ Pass(graph, hashOrder, labels).labels = labels
              /\ ~Pass(graph, hashOrder, labels).changed

C16_PropagationStopsAtFixedPoint ==
    /\ []C16_PassesBoundedAndFixedPoint
    /\ [][(op = "cluster_papers" /\ pc = "propagate" /\ LoopIsOver)
              => (pc' = "clustered" /\ labels' = labels)]_vars

(* on a graph with a cycle two passes changed labels and the third found   *)
(* the fixed point, before max_iterations was used up                      *)
C16_Witness ==
    /\ op = "cluster_papers"
    /\ pc = "clustered"
    /\ graph \in {CycleExample, BipartiteExample, CompleteExample}
    /\ iteration >= 2
    /\ iteration < max_iterations
    /\ ~changed
    /\ \E p \in DOMAIN labels : labels[p] # Lookup(graph.papers, p) - 1

RECURSIVE PlacedPapers(_)
PlacedPapers(cs) ==
    IF cs = <<>> THEN <<>> ELSE Head(cs).papers \o PlacedPapers(Tail(cs))

(* C17: every cluster has at least min_cluster_size papers; every paper of *)
(* the graph is in exactly one place among the clusters and                *)
(* unclustered_papers; a graph without edges and min_cluster_size >= 2     *)
(* gives no cluster.                                                       *)
C17_ClustersPartitionPapers ==
    Clustered =>
        LET placed == PlacedPapers(clustering.clusters)
                          \o clustering.unclustered_papers
        IN /\ \A k \in 1..Len(clustering.clusters) :
                 Len(clustering.clusters[k].papers) >= min_cluster_size
           /\ Len(placed) = Len(graph.papers)
           /\ \A i \in 1..Len(graph.papers) :
                 CountOf(placed, graph.papers[i].val) = 1
           /\ (graph.edges = <<>> /\ min_cluster_size >= 2) =>
                 /\ clustering.clusters = <<>>
                 /\ Len(clustering.unclustered_papers) = Len(graph.papers)

(* label propagation ran; one group became a cluster, another paper stayed *)
(* unclustered                                                             *)
C17_Witness ==
    /\ op = "cluster_papers"
    /\ pc = "clustered"
    /\ iteration >= 1
    /\ Len(clustering.clusters) >= 1
    /\ Len(clustering.unclustered_papers) >= 1

----------------------------------------------------------------------------
(* Properties of GapAnalyzer.find_gaps *)

GapsReturned == op = "find_gaps" /\ pc = "gaps_done"

MemberIds(cluster) ==
    {cluster.papers[i].paper_id : i \in 1..Len(cluster.papers)}

(* edges with one end in each of the two clusters, either way round *)
CrossEdges(a, b) ==
    Cardinality({i \in 1..Len(graph.edges) :
        \/ /\ graph.edges[i][1] \in MemberIds(a)
           /\ graph.edges[i][2] \in MemberIds(b)
        \/ /\ graph.edges[i][1] \in MemberIds(b)
           /\ graph.edges[i][2] \in MemberIds(a)})

BridgingGapsOf(a, b) ==
    {k \in 1..Len(gapResult.gaps) :
        /\ gapResult.gaps[k].gap_type = "bridging"
        /\ SeqToSet(gapResult.gaps[k].related_clusters)
               = {a.cluster_id, b.cluster_id}}

(* C18: every gap has a confidence in [0,1]; a pair of clusters with at    *)
(* least 3 papers each and r = cross / (|A| |B|) < 0.05 gets exactly one   *)
(* bridging gap, of confidence min(0.9, 1 - 10 r); no other pair gets one. *)
C18_BridgingGaps ==
    GapsReturned =>
        LET cs == clustering.clusters
        IN /\ \A k \in 1..Len(gapResult.gaps) :
                 LET c == gapResult.gaps[k].confidence
                 IN c.d > 0 /\ 0 <= c.n /\ c.n <= c.d
           /\ \A i, j \in 1..Len(cs) :
                 i < j =>
                    LET m == Len(cs[i].papers) * Len(cs[j].papers)
                        x == CrossEdges(cs[i], cs[j])
                        weak == /\ Len(cs[i].papers) >= 3
                                /\ Len(cs[j].papers) >= 3
                                /\ 20 * x < m
                    IN /\ Cardinality(BridgingGapsOf(cs[i], cs[j]))
                           = (IF weak THEN 1 ELSE 0)
                       /\ \A k \in BridgingGapsOf(cs[i], cs[j]) :
                             LET c == gapResult.gaps[k].confidence
                             IN IF 10 * (m - 10 * x) > 9 * m
                                THEN FracEq(c, Frac(9, 10))
                                ELSE FracEq(c, Frac(m - 10 * x, m))
                       /\ (weak /\ m = 25 /\ x = 1) =>
                             \A k \in BridgingGapsOf(cs[i], cs[j]) :
                                 FracEq(gapResult.gaps[k].confidence, Frac(3, 5))
           /\ \A k \in 1..Len(gapResult.gaps) :
                 gapResult.gaps[k].gap_type = "bridging" =>
                    \E i, j \in 1..Len(cs) :
                        i < j /\ k \in BridgingGapsOf(cs[i], cs[j])

(* two clusters of 5 papers with one edge across: one bridging gap of      *)
(* confidence 0.6                                                          *)
C18_Witness ==
    /\ GapsReturned
    /\ Len(clustering.clusters) >= 2
    /\ Len(clustering.clusters[1].papers) = 5
    /\ Len(clustering.clusters[2].papers) = 5
    /\ CrossEdges(clustering.clusters[1], clustering.clusters[2]) = 1
    /\ \E k \in BridgingGapsOf(clustering.clusters[1], clustering.clusters[2]) :
          FracEq(gapResult.gaps[k].confidence, Frac(3, 5))

----------------------------------------------------------------------------
(* Properties of ComparisonAnalyzer.compare_papers *)

Compared == op = "ComparisonAnalyzer" /\ pc = "compared"

PaperIdSet(ps) == {ps[i].paper_id : i \in 1..Len(ps)}

(* C19: every paper of unique_references[p] is cited by p and by no other  *)
(* compared paper, every paper of shared_references is cited by every      *)
(* compared paper; with cites[P1] = {R1, R2, R3} and cites[P2] = {R2, R3,  *)
(* R4}, shared_references is {R2, R3}, unique_references[P1] is {R1} and   *)
(* unique_references[P2] is {R4}.                                          *)
C19_UniqueAndSharedReferences ==
    Compared =>
        LET compared == PaperIdSet(comparison.papers)
            unique   == comparison.unique_references
        IN /\ \A k \in 1..Len(unique) :
                 \A r \in PaperIdSet(unique[k].val) :
                    /\ r \in Cites(graph, unique[k].key)
                    /\ \A o \in compared \ {unique[k].key} :
                          r \notin Cites(graph, o)
           /\ \A r \in PaperIdSet(comparison.shared_references) :
                 \A o \in compared : r \in Cites(graph, o)
           /\ (graph = ComparisonExample /\ paper_ids = <<"P1", "P2">>) =>
                 /\ PaperIdSet(comparison.shared_references) = {"R2", "R3"}
                 /\ PaperIdSet(Get(unique, "P1")) = {"R1"}
                 /\ PaperIdSet(Get(unique, "P2")) = {"R4"}

----------------------------------------------------------------------------
(* Properties of PaperInfo *)

(* the PaperInfo values the program holds: the values of papers and of the *)
(* returned graph, and both ends of every relationship gathered            *)
LivePaperInfos ==
    {papers[i].val : i \in 1..Len(papers)}
        \cup {graph.papers[i].val : i \in 1..Len(graph.papers)}
        \cup UNION {UNION {{results[i].relationships[k].citing_paper,
                            results[i].relationships[k].cited_paper} :
                           k \in 1..Len(results[i].relationships)} :
                    i \in 1..Len(results)}

(* C20: two PaperInfo values are equal exactly when their paper_id is the  *)
(* same, whatever their title.                                             *)
C20_EqualityByPaperId ==
    \A p, q \in LivePaperInfos :
        PaperInfoEq(p, q) <=> (p.paper_id = q.paper_id)

----------------------------------------------------------------------------
(* Determinism of ClusterAnalyzer.cluster_papers *)

(* C21: a second run of cluster_papers on the same graph, whatever the     *)
(* order in which it iterates the neighbour sets, returns the clusters and *)
(* the unclustered papers of the first run.                                *)
C21_ClusteringIsDeterministic ==
    (op = "cluster_papers" /\ pc \in {"clustered", "clustered_early"}) =>
        \A order \in Perms(Keys(graph.papers) \cup EdgeIds(graph.edges)) :
            cluster_papers(graph, min_cluster_size, max_iterations, order)
                = clustering

----------------------------------------------------------------------------
(* The level barrier of GraphBuilder.build *)

Outstanding == {i \in 1..Len(results) : results[i] = Pending}

(* C22: the tasks of a level are started only when no task of the level    *)
(* before is outstanding, and papers and edges change only when no task of *)
(* the current level is outstanding.                                       *)
C22_LevelBarrier ==
    [][/\ (tasks' # tasks \/ taskLog' # taskLog) => Outstanding = {}
       /\ (papers' # papers \/ edges' # edges) => Outstanding = {}]_vars

(* the second level is being fetched, the first has been merged *)
C22_Witness ==
    /\ pc = "gather"
    /\ Len(taskLog) >= 2
    /\ Outstanding # {}
    /\ Len(papers) >= 2

----------------------------------------------------------------------------
(* Concurrency of the fetch tasks of a level *)

(* the concurrency bound of the claim at the scale of the model, where a   *)
(* level has at most 4 tasks; the documents recommend 8 to 16              *)
ConcurrencyLimit == 2

(* C23: at every moment of a build at most ConcurrencyLimit fetch tasks    *)
(* are outstanding, however many tasks the level has.                      *)
C23_BoundedConcurrency ==
    Cardinality(Outstanding) <= ConcurrencyLimit

----------------------------------------------------------------------------
(* The edges of a returned graph *)

(* the pairs of the relationships the result loop reads from the fetches   *)
(* of the build that did not raise                                         *)
FetchedPairs ==
    UNION {UNION {IF TaskResult(taskLog[l][i]).status = "ok"
                  THEN {RelEdge(TaskRels(taskLog[l][i])[k]) :
                           k \in 1..Len(TaskRels(taskLog[l][i]))}
                  ELSE {} :
                  i \in 1..Len(taskLog[l])} :
           l \in 1..Len(taskLog)}

(* A and B cite each other, as the upstream lists it from A *)
MutualCitation ==
    /\ root_paper_id = "A"
    /\ direction = "both"
    /\ depth = 1
    /\ upPaper["A"].st = "200"
    /\ upList[<<"citation", "A">>] = [st |-> "200", items |-> {"B"}]
    /\ upList[<<"reference", "A">>] = [st |-> "200", items |-> {"B"}]

(* C24: the edges of a returned graph are exactly the pairs (citing_id,    *)
(* cited_id) of the first max_papers_per_level relationships of every      *)
(* fetch that succeeded; when A and B cite each other a depth-1 build from *)
(* A in direction both has exactly the two edges (B,A) and (A,B).          *)
C24_EdgesAreTheFetchedPairs ==
    Returned =>
        /\ SeqToSet(graph.edges) = FetchedPairs
        /\ MutualCitation =>
              /\ Len(graph.edges) = 2
              /\ SeqToSet(graph.edges) = {<<"B", "A">>, <<"A", "B">>}

C24_Witness ==
    /\ Returned
    /\ MutualCitation
    /\ Len(graph.edges) = 2

----------------------------------------------------------------------------
(* The levels of a build *)

(* every fetch of level 1 came back without a relationship *)
FirstLevelEmpty ==
    /\ Len(taskLog) >= 1
    /\ \A i \in 1..Len(taskLog[1]) : TaskRels(taskLog[1][i]) = <<>>

DepthBound == Min(Max(depthArg, 1), 3)

----------------------------------------------------------------------------
(* Expansion of a paper *)

(* the fetch tasks of the build so far, level by level *)
TaskSlots ==
    UNION {{<<l, i>> : i \in 1..Len(taskLog[l])} : l \in 1..Len(taskLog)}

PivotTasks(kind, id) ==
    {s \in TaskSlots : taskLog[s[1]][s[2]] = Task(kind, id)}

(* C26: over a whole build a paper id is the pivot of at most one          *)
(* citations fetch task and of at most one references fetch task.          *)
C26_ExpandedOnce ==
    \A id \in Ids, kind \in ListKinds :
        Cardinality(PivotTasks(kind, id)) <= 1

(* the root was reported again by a fetch of the second level *)
C26_Witness ==
    /\ Returned
    /\ Len(taskLog) >= 2
    /\ \E i \in 1..Len(taskLog[2]) :
          \E k \in 1..Len(TaskRels(taskLog[2][i])) :
              RelOther(taskLog[2][i], TaskRels(taskLog[2][i])[k]) = root_paper_id

----------------------------------------------------------------------------
(* Connectedness of a returned graph *)

(* the ids joined to the root by at most k edges of g, read as undirected *)
RECURSIVE Within(_, _)
Within(g, k) ==
    IF k = 0 THEN {g.root_paper_id}
    ELSE LET W == Within(g, k - 1)
         IN W \cup {g.edges[i][1] : i \in {j \in 1..Len(g.edges) :
                                              g.edges[j][2] \in W}}
              \cup {g.edges[i][2] : i \in {j \in 1..Len(g.edges) :
                                              g.edges[j][1] \in W}}

(* C27: in a returned graph every paper other than the root is joined to   *)
(* the root by a path of at most min(max(depth,1),3) edges read as         *)
(* undirected, and an edge touches every paper other than the root.        *)
C27_PapersReachTheRoot ==
    Returned =>
        /\ Keys(graph.papers) \subseteq Within(graph, DepthBound)
        /\ Keys(graph.papers) \ {graph.root_paper_id}
               \subseteq EdgeIds(graph.edges)

----------------------------------------------------------------------------
(* The central paper of a cluster *)

(* the ids of the model in the order of Python's str comparison *)
NaturalOrder ==
    <<"", "A", "B", "P1", "P2", "R1", "R2", "R3", "R4", "V", "W", "X", "Y", "Z">>

KeyRank(id) == CHOOSE i \in 1..Len(NaturalOrder) : NaturalOrder[i] = id

InClusterDegree(c, id) ==
    Cardinality((Cites(graph, id) \cup CitedBy(graph, id)) \cap MemberIds(c))

(* C28: the central paper of a cluster is a member with the most           *)
(* neighbours inside the cluster, and among the members with the most it   *)
(* is the first in natural key order.                                      *)
C28_CentralPaperIsFirstOfBest ==
    (op = "cluster_papers" /\ pc = "clustered") =>
        \A k \in 1..Len(clustering.clusters) :
            LET c == clustering.clusters[k]
            IN /\ c.central_paper_id \in MemberIds(c)
               /\ \A m \in MemberIds(c) :
                     /\ InClusterDegree(c, m)
                            <= InClusterDegree(c, c.central_paper_id)
                     /\ InClusterDegree(c, m)
                            = InClusterDegree(c, c.central_paper_id)
                           => KeyRank(c.central_paper_id) <= KeyRank(m)


(* the title tokens of the compared paper p: words of three letters or    *)
(* more, lower-cased, outside the stop words of the comparison             *)
TokensOf(p) == SeqToSet(CompareTokens(p.title))

(* C29: no word of the stop set {a, an, the, of, in, for, on, with, to,    *)
(* and, is, are, by, from, using, via, based, towards, its, as, at, be,    *)
(* or, this, that} appears in common_themes or in any list of              *)
(* distinguishing_aspects of a PaperComparison.                            *)
C29_NoStopWordInThemes ==
    Compared =>
        LET themes  == comparison.common_themes
            aspects == comparison.distinguishing_aspects
        IN /\ \A i \in 1..Len(themes) : themes[i] \notin KeyTermStopWords
           /\ \A k \in 1..Len(aspects) :
                 \A i \in 1..Len(aspects[k].val) :
                    aspects[k].val[i] \notin KeyTermStopWords

(* C30: distinguishing_aspects[p] holds only title tokens of p that occur  *)
(* in the title of no other compared paper, and it is non-empty whenever p *)
(* has such a token, also when the token occurs more than once in p's own  *)
(* title.                                                                  *)
C30_AspectsAreTheOwnTokens ==
    Compared =>
        LET ps      == comparison.papers
            aspects == comparison.distinguishing_aspects
            own(i)  == {w \in TokensOf(ps[i]) :
                          \A j \in 1..Len(ps) :
                             ps[j].paper_id # ps[i].paper_id
                                 => w \notin TokensOf(ps[j])}
        IN Len(ps) >= 2 =>
              \A i \in 1..Len(ps) :
                 /\ ps[i].paper_id \in Keys(aspects)
                 /\ SeqToSet(Get(aspects, ps[i].paper_id)) \subseteq own(i)
                 /\ own(i) # {} => Get(aspects, ps[i].paper_id) # <<>>

====
